---- MODULE Spec2Model ----
(***************************************************************************)
(* d2rmp: the virtual file resolver (src/resolver.js) with the file helpers *)
(* it calls (utils.js).  Texts are sequences of one-character strings, a    *)
(* path is a sequence of segments and a segment is a sequence of            *)
(* characters, so that String.startsWith, String.replace and parseInt are   *)
(* computed on characters as the code computes them.                        *)
(***************************************************************************)
EXTENDS Integers, Sequences, FiniteSets, TLC

VARIABLES
    implicitOutputMap,  \* FileResolver.implicitOutputMap: rel-path -> output record
    outputOrder,        \* insertion order of implicitOutputMap (Object.entries order)
    implicitInputMap,   \* FileResolver.implicitInputMap: rel-path -> input record
    nextStringID,       \* FileResolver.nextStringID
    fs,                 \* the file system: real path -> file
    dryrun,             \* globalThis.dryrun
    reloads,            \* history: rel-path -> number of read-backs of the output file
    lastWrite,          \* history: rel-path -> content of the last updateOutputFile call
    scriptWrites,       \* history: rel-paths that scripts wrote
    ids,                \* history: the ids returned by acquireNextStringID, in order
    firstID,            \* history: the integer parsed from the ledger at the first allocation
    flushes,            \* history: number of flush() calls
    diskWrites,         \* history: rel-paths handed to writeFileSync so far
    lastOp,             \* history: the last operation, its arguments and its result
    pc,                 \* "run" while the process lives, "exit" once an error was fatal
    paths,              \* the relative paths the scripts of this run use
    sinceFlush,         \* history: "none" before the first flush, then "clean" until a write or an allocation
    pp,                 \* one runModScript call: the preprocessor's locals, the segments, what was executed
    task                \* one runD2RMMTask call: the selected mods, the loop position, the counters, the report

vars == << implicitOutputMap, outputOrder, implicitInputMap, nextStringID, fs, dryrun,
           reloads, lastWrite, scriptWrites, ids, firstID, flushes, diskWrites, lastOp, pc, paths, sinceFlush,
           pp, task >>

----------------------------------------------------------------------------
(* Bounds *)
MaxReloads == 2
MaxAllocs == 2
MaxFlushes == 2
MaxTextLen == 4
MaxNewID == 11

----------------------------------------------------------------------------
(* Values *)

\* JS null for a content; no text is equal to it (texts hold one-character strings)
Null == << "null" >>
\* a record's realPath when no input root has the file
NoPath == << << "null" >> >>
\* fs entries that are not file contents: no entry (ENOENT), a directory (EISDIR on read and write)
NoFile == << "ENOENT" >>
IsDir == << "EISDIR" >>
\* the byte order mark
BOM == "\\uFEFF"

Digits == { "0", "1", "2", "3", "4", "5", "6", "7", "8", "9" }

\* JS truthiness of a content: null and '' are falsy
Truthy(content) == content # Null /\ content # << >>

----------------------------------------------------------------------------
(* Paths *)

OutputPath == << <<"m">>, <<"d">> >>
UserInputPath == << <<"u">> >>
BaseInputPath == << <<"b">> >>

\* FileResolver.init: the input roots in priority order, duplicates and nulls removed
InputPaths ==
    LET raw == << UserInputPath, BaseInputPath >>
        keep(i) == raw[i] # NoPath /\ \A j \in 1..(i - 1) : raw[j] # raw[i]
    IN  SelectSeq([ i \in 1..Len(raw) |-> IF keep(i) THEN raw[i] ELSE NoPath ], LAMBDA r : r # NoPath)

DotDot == << ".", "." >>

\* path.join: concatenates and resolves '..' segments
RECURSIVE JoinSegs(_, _)
JoinSegs(acc, segs) ==
    IF segs = << >> THEN acc
    ELSE IF Head(segs) = DotDot
         THEN JoinSegs(IF acc = << >> THEN acc ELSE SubSeq(acc, 1, Len(acc) - 1), Tail(segs))
         ELSE JoinSegs(Append(acc, Head(segs)), Tail(segs))

\* a mixed path as a script gives it: segments and the separator style used
\* normalizePath (convertPath to posix): the separator style is dropped, segments are kept as given
normalizePath(mixedPath) == mixedPath.segs

\* FileResolver.getNativePath(root, relPath)
getNativePath(root, relPath) == JoinSegs(root, relPath)

\* the string of an absolute path
RECURSIVE Render(_)
Render(p) == IF p = << >> THEN << >> ELSE << "/" >> \o Head(p) \o Render(Tail(p))

\* String.prototype.startsWith
StartsWith(s, prefix) == Len(prefix) <= Len(s) /\ SubSeq(s, 1, Len(prefix)) = prefix

\* flush1Ex without its test of the real path
InsideAnywhere(realPath) == TRUE

\* flush1Ex's test: realPath.startsWith(path.resolve(outputPath, '..'))
InsideOutput(realPath) == StartsWith(Render(realPath), Render(JoinSegs(OutputPath, << DotDot >>)))

----------------------------------------------------------------------------
(* The id ledger text: parseNextStringID, updateNextStringID *)

DigitVal(c) == CHOOSE v \in 0..9 : << "0", "1", "2", "3", "4", "5", "6", "7", "8", "9" >>[v + 1] = c

\* parseInt of a run of decimal digits
RECURSIVE ParseInt(_)
ParseInt(run) ==
    IF run = << >> THEN 0 ELSE 10 * ParseInt(SubSeq(run, 1, Len(run) - 1)) + DigitVal(run[Len(run)])

\* '' + n for an integer n >= 0
RECURSIVE NumberToString(_)
NumberToString(n) ==
    LET d == << << "0", "1", "2", "3", "4", "5", "6", "7", "8", "9" >>[(n % 10) + 1] >>
    IN  IF n < 10 THEN d ELSE NumberToString(n \div 10) \o d

\* the match of /[0-9]+/ in a text: the leftmost digit and the longest run from there;
\* [ found, from, to ]
MatchDigits(text) ==
    LET starts == { i \in 1..Len(text) : text[i] \in Digits }
    IN  IF starts = { } THEN [ found |-> FALSE, from |-> 0, to |-> 0 ]
        ELSE LET from == CHOOSE i \in starts : \A j \in starts : i <= j
                 to == CHOOSE k \in from..Len(text) :
                           /\ \A j \in from..k : text[j] \in Digits
                           /\ (k = Len(text) \/ text[k + 1] \notin Digits)
             IN  [ found |-> TRUE, from |-> from, to |-> to ]

\* parseNextStringID(content): [ threw, value ]; content.match throws on null, no match throws
parseNextStringID(content) ==
    IF content = Null THEN [ threw |-> TRUE, value |-> -1 ]
    ELSE LET ma == MatchDigits(content)
         IN  IF ~ma.found THEN [ threw |-> TRUE, value |-> -1 ]
             ELSE [ threw |-> FALSE, value |-> ParseInt(SubSeq(content, ma.from, ma.to)) ]

\* the replacement with the pattern /[0-9]/: only the first digit is replaced
updateNextStringIDOneDigit(content, newID) ==
    LET ma == MatchDigits(content)
    IN  IF ~ma.found THEN content
        ELSE SubSeq(content, 1, ma.from - 1) \o NumberToString(newID)
                 \o SubSeq(content, ma.from + 1, Len(content))

\* content.replace(/[0-9]+/, '' + newID) for a content that is a string
updateNextStringID(content, newID) ==
    LET ma == MatchDigits(content)
    IN  IF ~ma.found THEN content
        ELSE SubSeq(content, 1, ma.from - 1) \o NumberToString(newID)
                 \o SubSeq(content, ma.to + 1, Len(content))

----------------------------------------------------------------------------
(* utils.js: the file helpers *)

\* fs.existsSync
ExistsSync(files, realPath) == realPath \in DOMAIN files /\ files[realPath] # NoFile

\* readFileSyncNoThrow(filepath): [ content, err ]; ENOENT gives [ null, null ],
\* another failure gives [ null, e ], and a leading BOM is removed from the text read
readFileSyncNoThrow(files, realPath) ==
    IF ~(realPath \in DOMAIN files) \/ files[realPath] = NoFile THEN [ content |-> Null, err |-> FALSE ]
    ELSE IF files[realPath] = IsDir THEN [ content |-> Null, err |-> TRUE ]
    ELSE LET text == files[realPath]
         IN  [ content |-> IF text # << >> /\ Head(text) = BOM THEN Tail(text) ELSE text, err |-> FALSE ]

\* writeFileSync(filepath, content) (throwError: true) on the world w: in a dry run nothing
\* is written; a failing fs.writeFileSync throws
writeFileSync(w, relPath, realPath, content) ==
    LET logged == [ w EXCEPT !.diskWrites = @ \cup { relPath },
                             !.written = Append(@, [ relPath |-> relPath, realPath |-> realPath, content |-> content ]) ]
    IN  IF w.dryrun THEN [ logged EXCEPT !.log = Append(@, << "write file", realPath >>) ]
        ELSE IF realPath \in DOMAIN w.fs /\ w.fs[realPath] = IsDir THEN [ w EXCEPT !.threw = TRUE ]
        ELSE [ logged EXCEPT !.fs = (realPath :> content) @@ @ ]

----------------------------------------------------------------------------
(* FileResolver.  An operation takes and gives a world w:                  *)
(*   out, order, inp, next : the resolver's fields                         *)
(*   fs, dryrun            : the file system and the dry-run flag          *)
(*   reloads, diskWrites, lastWrite : the history variables                 *)
(*   written               : the writeFileSync calls of the operation       *)
(*   threw                 : the operation threw                            *)

\* resolveImplicitOutput with a new record that starts dirty
resolveImplicitOutputDirty(w, outputRelPath) ==
    IF outputRelPath \in DOMAIN w.out THEN w
    ELSE LET realPath == getNativePath(OutputPath, outputRelPath)
             outputInfo == [ relPath |-> outputRelPath, realPath |-> realPath, dirty |-> TRUE,
                             evicted |-> ExistsSync(w.fs, realPath), content |-> Null, type |-> Null ]
         IN  [ w EXCEPT !.out = (outputRelPath :> outputInfo) @@ @, !.order = Append(@, outputRelPath) ]

\* resolveImplicitOutput that makes a new record at every call
resolveImplicitOutputAgain(w, outputRelPath) ==
    LET realPath == getNativePath(OutputPath, outputRelPath)
        outputInfo == [ relPath |-> outputRelPath, realPath |-> realPath, dirty |-> FALSE,
                        evicted |-> ExistsSync(w.fs, realPath), content |-> Null, type |-> Null ]
    IN  [ w EXCEPT !.out = (outputRelPath :> outputInfo) @@ @, !.order = Append(@, outputRelPath) ]

\* resolveImplicitOutput(mixedModResPath), the key is outputRelPath
resolveImplicitOutput(w, outputRelPath) ==
    IF outputRelPath \in DOMAIN w.out THEN w
    ELSE LET realPath == getNativePath(OutputPath, outputRelPath)
             outputInfo == [ relPath |-> outputRelPath, realPath |-> realPath, dirty |-> FALSE,
                             evicted |-> ExistsSync(w.fs, realPath), content |-> Null, type |-> Null ]
         IN  [ w EXCEPT !.out = (outputRelPath :> outputInfo) @@ @, !.order = Append(@, outputRelPath) ]

\* the first candidate of inputPaths, whether it exists or not
FirstCandidate(files, roots, inputRelPath) ==
    IF roots = << >> THEN NoPath ELSE getNativePath(Head(roots), inputRelPath)

\* the first candidate of inputPaths that exists, or null
RECURSIVE FirstExisting(_, _, _)
FirstExisting(files, roots, inputRelPath) ==
    IF roots = << >> THEN NoPath
    ELSE LET resPathCand == getNativePath(Head(roots), inputRelPath)
         IN  IF ExistsSync(files, resPathCand) THEN resPathCand
             ELSE FirstExisting(files, Tail(roots), inputRelPath)

\* resolveImplicitInput that searches the input roots at every call
resolveImplicitInputAgain(w, inputRelPath) ==
    LET inputInfo == [ relPath |-> inputRelPath, content |-> Null, type |-> Null,
                       realPath |-> FirstExisting(w.fs, InputPaths, inputRelPath) ]
    IN  [ w EXCEPT !.inp = (inputRelPath :> inputInfo) @@ @ ]

\* resolveImplicitInput(mixedAnyRelPath), the key is inputRelPath
resolveImplicitInput(w, inputRelPath) ==
    IF inputRelPath \in DOMAIN w.inp THEN w
    ELSE LET inputInfo == [ relPath |-> inputRelPath, content |-> Null, type |-> Null,
                            realPath |-> FirstExisting(w.fs, InputPaths, inputRelPath) ]
         IN  [ w EXCEPT !.inp = (inputRelPath :> inputInfo) @@ @ ]

\* readAutoInputFileSync(mixedAnyRelPath): [ w, content, err, info ], info the kind of the
\* record returned ("output", "input" or "null"); w.threw when the read-back failed
readAutoInputFileSync(w0, relPath) ==
    LET \* lines 118-123: the input file is read and its content cached
        ReadInput(w3, read) ==
            [ w |-> IF ~read.err THEN [ w3 EXCEPT !.inp[relPath].content = read.content ] ELSE w3,
              content |-> read.content, err |-> read.err, info |-> "input" ]
        \* lines 109-117: the input record
        FromInput(w3, inputInfo) ==
            IF Truthy(inputInfo.content)
            THEN [ w |-> w3, content |-> inputInfo.content, err |-> FALSE, info |-> "input" ]
            ELSE IF inputInfo.realPath = NoPath
            THEN [ w |-> w3, content |-> Null, err |-> FALSE, info |-> "null" ]
            ELSE ReadInput(w3, readFileSyncNoThrow(w3.fs, inputInfo.realPath))
        Resolved(w3) == FromInput(w3, w3.inp[relPath])
        \* lines 105-108: the tracked output content is forwarded
        Forward(w2) ==
            IF Truthy(w2.out[relPath].content)
            THEN [ w |-> w2, content |-> w2.out[relPath].content, err |-> FALSE, info |-> "output" ]
            ELSE Resolved(resolveImplicitInput(w2, relPath))
        \* lines 95-104: the file of an evicted record is read back
        Reload(w1, reload) ==
            IF ~w1.out[relPath].evicted THEN Forward(w1)
            ELSE IF reload.err
            THEN [ w |-> [ w1 EXCEPT !.threw = TRUE ], content |-> Null, err |-> TRUE, info |-> "null" ]
            ELSE Forward([ w1 EXCEPT !.out[relPath].content = reload.content, !.reloads[relPath] = @ + 1 ])
        Start(w1) == Reload(w1, readFileSyncNoThrow(w1.fs, w1.out[relPath].realPath))
    IN  Start(resolveImplicitOutput(w0, relPath))

\* resolveAutoInputFile(mixedAnyRelPath): [ w, info ] (outputPath is set)
resolveAutoInputFile(w0, relPath) ==
    LET Input(w2) ==
            IF w2.inp[relPath].realPath # NoPath THEN [ w |-> w2, info |-> "input" ]
            ELSE [ w |-> w2, info |-> "null" ]
        Output(w1) ==
            IF w1.out[relPath].evicted THEN [ w |-> w1, info |-> "output" ]
            ELSE Input(resolveImplicitInput(w1, relPath))
    IN  Output(resolveImplicitOutput(w0, relPath))

\* updateOutputFile's test without the comparison: every write counts as a change
ContentAlwaysDiffers(content, tracked) == TRUE

\* updateOutputFile's test: content !== outputInfo.content
ContentDiffers(content, tracked) == content # tracked

\* updateOutputFile(mixedModResPath, content)
updateOutputFile(w0, relPath, content) ==
    LET Update(w1) ==
            IF ContentDiffers(content, w1.out[relPath].content)
            THEN [ w1 EXCEPT !.lastWrite[relPath] = content,
                             !.out[relPath].dirty = TRUE, !.out[relPath].content = content ]
            ELSE [ w1 EXCEPT !.lastWrite[relPath] = content ]
    IN  Update(resolveImplicitOutput(w0, relPath))

\* path.dirname of a real path
Dirname(realPath) == SubSeq(realPath, 1, Len(realPath) - 1)
\* a directory and the directories above it
Ancestors(dirpath) == { SubSeq(dirpath, 1, n) : n \in 1..Len(dirpath) }

\* mkdirSync that creates the directory in a dry run too
mkdirSyncAlways(w, dirpath) ==
    [ w EXCEPT !.fs = [ rp \in DOMAIN w.fs \cup Ancestors(dirpath) |->
                          IF rp \in Ancestors(dirpath) THEN IsDir ELSE w.fs[rp] ] ]

\* mkdirSync(dirpath) (recursive: true): in a dry run the directory is not created
mkdirSync(w, dirpath) ==
    IF w.dryrun THEN [ w EXCEPT !.log = Append(@, << "mkdir", dirpath >>) ]
    ELSE [ w EXCEPT !.fs = [ rp \in DOMAIN w.fs \cup Ancestors(dirpath) |->
                               IF rp \in Ancestors(dirpath) THEN IsDir ELSE w.fs[rp] ] ]

\* flush1Ex that leaves the dirty flag set
flush1ExKeepsDirty(w, relPath) ==
    IF ~w.out[relPath].dirty THEN w
    ELSE IF ~InsideOutput(w.out[relPath].realPath) THEN [ w EXCEPT !.threw = TRUE ]
    ELSE writeFileSync(mkdirSync(w, Dirname(w.out[relPath].realPath)), relPath,
                       w.out[relPath].realPath, w.out[relPath].content)

\* flush1Ex(outputInfo)
flush1Ex(w, relPath) ==
    IF ~w.out[relPath].dirty THEN w
    ELSE IF ~InsideOutput(w.out[relPath].realPath)
    THEN [ w EXCEPT !.out[relPath].dirty = FALSE, !.threw = TRUE ]
    ELSE writeFileSync(mkdirSync([ w EXCEPT !.out[relPath].dirty = FALSE ], Dirname(w.out[relPath].realPath)),
                       relPath, w.out[relPath].realPath, w.out[relPath].content)

\* writeOutputFile(mixedModResPath, content): updateOutputFile, then flush1
writeOutputFile(w, relPath, content) ==
    flush1Ex(resolveImplicitOutput(updateOutputFile(w, relPath, content), relPath), relPath)

kNextStringIDPath == << << "n" >> >>

\* the id returned with a pre-increment: return ++this.nextStringID
ReturnedIDPreIncrement(counter) == counter + 1

\* the id that acquireNextStringID returns when the counter holds counter: return this.nextStringID++
ReturnedID(counter) == counter

\* acquireNextStringID(): [ w, id ]
acquireNextStringID(w) ==
    LET \* line 169 after line 166
        Parsed(w1, parsed) ==
            IF parsed.threw THEN [ w |-> [ w1 EXCEPT !.threw = TRUE ], id |-> -1 ]
            ELSE [ w |-> [ w1 EXCEPT !.next = parsed.value + 1 ], id |-> ReturnedID(parsed.value) ]
        \* lines 164-166
        Load(read) ==
            IF read.w.threw THEN [ w |-> read.w, id |-> -1 ]
            ELSE IF read.err THEN [ w |-> [ read.w EXCEPT !.threw = TRUE ], id |-> -1 ]
            ELSE Parsed(read.w, parseNextStringID(read.content))
    IN  IF w.next >= 0 THEN [ w |-> [ w EXCEPT !.next = @ + 1 ], id |-> ReturnedID(w.next) ]
        ELSE Load(readAutoInputFileSync(w, kNextStringIDPath))

\* flushNextStringID that persists the last id returned instead of the next one
flushNextStringIDStale(w) ==
    LET Store(read) ==
            IF read.w.threw THEN read.w
            ELSE IF read.err \/ read.content = Null THEN [ read.w EXCEPT !.threw = TRUE ]
            ELSE writeOutputFile(read.w, kNextStringIDPath, updateNextStringID(read.content, read.w.next - 1))
    IN  IF w.next < 0 THEN w ELSE Store(readAutoInputFileSync(w, kNextStringIDPath))

\* flushNextStringID()
flushNextStringID(w) ==
    LET Store(read) ==
            IF read.w.threw THEN read.w
            ELSE IF read.err \/ read.content = Null THEN [ read.w EXCEPT !.threw = TRUE ]
            ELSE writeOutputFile(read.w, kNextStringIDPath, updateNextStringID(read.content, read.w.next))
    IN  IF w.next < 0 THEN w ELSE Store(readAutoInputFileSync(w, kNextStringIDPath))

\* the loop of flush() over Object.entries(implicitOutputMap); a throw ends it
RECURSIVE FlushEntries(_, _)
FlushEntries(w, entries) ==
    IF entries = << >> \/ w.threw THEN w
    ELSE FlushEntries(IF w.out[Head(entries)].dirty THEN flush1Ex(w, Head(entries)) ELSE w, Tail(entries))

\* a flush that writes nothing
flushNothing(w) == w

\* flush()
flush(w) ==
    LET Ledger(w1) == IF w1.threw THEN w1 ELSE flushNextStringID(w1)
    IN  Ledger(FlushEntries(w, w.order))

----------------------------------------------------------------------------
(* The inputs of the model *)

DataPath == << << "g" >>, << "a" >> >>
ParentPath == << DotDot, << "i" >> >>
EscapePath == << DotDot, DotDot, << "x" >> >>
SiblingPath == << DotDot, DotDot, << "m", "2" >>, << "f" >> >>

RelPaths == { DataPath, kNextStringIDPath, ParentPath, EscapePath, SiblingPath }

\* the paths as scripts give them: with '/' or with '\' between the segments
MixedPaths == { [ segs |-> p, sep |-> "/" ] : p \in RelPaths } \cup { [ segs |-> DataPath, sep |-> "\\" ] }
ReadPaths == { mp \in MixedPaths : mp.segs \in { DataPath, kNextStringIDPath } }

OldText == << "o" >>
UserText == << "u" >>
BaseText == << "b" >>
NewText == << "x" >>
OldLedger == << "i", "d", "9", "y", "3" >>
BaseLedger == << "0", "7" >>
ModLedger == << "k", "5" >>
NoDigits == << "#" >>

\* the contents a script writes to a path
WriteTexts(relPath) ==
    IF relPath = DataPath THEN { << >>, NewText, OldText }
    ELSE IF relPath = kNextStringIDPath THEN { << >>, NoDigits, ModLedger }
    ELSE { NewText }

Roots == { OutputPath, UserInputPath, BaseInputPath }
FsPaths == { getNativePath(root, p) : root \in Roots, p \in RelPaths }

\* the files a run can start with: the output root may hold the data file and the ledger
\* of an earlier run, the input roots may hold the data file, the base root the ledger
Files(outData, userData, baseData, outLedger, baseLedger) ==
    [ rp \in FsPaths |->
        IF rp = getNativePath(OutputPath, DataPath) THEN outData
        ELSE IF rp = getNativePath(UserInputPath, DataPath) THEN userData
        ELSE IF rp = getNativePath(BaseInputPath, DataPath) THEN baseData
        ELSE IF rp = getNativePath(OutputPath, kNextStringIDPath) THEN outLedger
        ELSE IF rp = getNativePath(BaseInputPath, kNextStringIDPath) THEN baseLedger
        ELSE NoFile ]

\* the sets of paths a run works on
Scenarios ==
    { { DataPath }, { kNextStringIDPath }, { ParentPath, EscapePath, SiblingPath }, { ParentPath, kNextStringIDPath } }

----------------------------------------------------------------------------
(* The state machine *)

EmptyMap == [ p \in { } |-> Null ]

NoOp == [ op |-> "none", relPath |-> << >>, arg |-> Null, content |-> Null, err |-> FALSE,
          info |-> "null", threw |-> FALSE, id |-> -1, written |-> << >>, dirtyBefore |-> { },
          recBefore |-> << >>, log |-> << >>, warned |-> FALSE ]

\* no runModScript call is under way
IdlePP ==
    [ pc |-> "idle", code |-> << >>, lines |-> << >>, lineIndex |-> 0, nextExpectedState |-> "free",
      libStack |-> << >>, blocks |-> << >>, err |-> "null", errLine |-> -1,
      scriptSources |-> << >>, cache |-> EmptyMap, loaded |-> << >>, next |-> 1, executed |-> << >>,
      ran |-> << >>, D2RMM |-> 0, config |-> Null, scope |-> << >> ]

\* no runD2RMMTask call is under way
IdleTask ==
    [ pc |-> "idle", mods |-> << >>, options |-> { }, index |-> 1,
      totalModsCount |-> 0, successModsCount |-> 0, skipModsCount |-> 0,
      outcome |-> << >>, attempts |-> << >>, flushCalls |-> 0, report |-> "none", exitCode |-> -1,
      fsAtLoop |-> EmptyMap, dirtyAtBreak |-> EmptyMap, configWrites |-> << >> ]

\* the world an operation starts from
World ==
    [ out |-> implicitOutputMap, order |-> outputOrder, inp |-> implicitInputMap, next |-> nextStringID,
      fs |-> fs, dryrun |-> dryrun, reloads |-> reloads, diskWrites |-> diskWrites, lastWrite |-> lastWrite,
      written |-> << >>, threw |-> FALSE, log |-> << >> ]

\* the dirty records of a world
DirtySet(w) == { p \in DOMAIN w.out : w.out[p].dirty }

\* the new state is the world w, within the bounds of the model
Becomes(w) ==
    /\ \A p \in RelPaths : w.reloads[p] <= MaxReloads
    /\ implicitOutputMap' = w.out
    /\ outputOrder' = w.order
    /\ implicitInputMap' = w.inp
    /\ nextStringID' = w.next
    /\ fs' = w.fs
    /\ reloads' = w.reloads
    /\ diskWrites' = w.diskWrites
    /\ lastWrite' = w.lastWrite
    /\ dryrun' = dryrun
    /\ paths' = paths

\* constructor
Init ==
    /\ implicitOutputMap = EmptyMap
    /\ outputOrder = << >>
    /\ implicitInputMap = EmptyMap
    /\ nextStringID = -1
    /\ paths \in Scenarios
    /\ \E outData \in { NoFile, OldText }, userData \in { NoFile, UserText }, baseData \in { NoFile, BaseText },
          outLedger \in { NoFile, OldLedger }, baseLedger \in { NoFile, BaseLedger } :
          /\ DataPath \notin paths => outData = NoFile /\ userData = NoFile /\ baseData = NoFile
          /\ kNextStringIDPath \notin paths => outLedger = NoFile /\ baseLedger = NoFile
          /\ fs = Files(outData, userData, baseData, outLedger, baseLedger)
    /\ dryrun \in BOOLEAN
    /\ reloads = [ p \in RelPaths |-> 0 ]
    /\ lastWrite = [ p \in RelPaths |-> Null ]
    /\ scriptWrites = { }
    /\ ids = << >>
    /\ firstID = -1
    /\ flushes = 0
    /\ diskWrites = { }
    /\ lastOp = NoOp
    /\ pc = "run"
    /\ sinceFlush = "none"
    /\ pp = IdlePP
    /\ task = IdleTask

\* a script reads a path
Read(mixedPath) ==
    \E r \in { readAutoInputFileSync(World, normalizePath(mixedPath)) } :
        /\ pc = "run"
        /\ Becomes(r.w)
        /\ lastOp' = [ NoOp EXCEPT !.op = "read", !.relPath = normalizePath(mixedPath), !.content = r.content,
                                   !.err = r.err, !.info = r.info, !.threw = r.w.threw ]
        /\ UNCHANGED << scriptWrites, ids, firstID, flushes, pc, sinceFlush, pp, task >>

\* a path is resolved without reading it
Resolve(mixedPath) ==
    \E r \in { resolveAutoInputFile(World, normalizePath(mixedPath)) } :
        /\ pc = "run"
        /\ Becomes(r.w)
        /\ lastOp' = [ NoOp EXCEPT !.op = "resolve", !.relPath = normalizePath(mixedPath), !.info = r.info ]
        /\ UNCHANGED << scriptWrites, ids, firstID, flushes, pc, sinceFlush, pp, task >>

\* a script writes a content to a path
Write(mixedPath, content) ==
    \E relPath \in { normalizePath(mixedPath) } : \E w \in { updateOutputFile(World, relPath, content) } :
        /\ pc = "run"
        /\ Becomes(w)
        /\ scriptWrites' = scriptWrites \cup { relPath }
        /\ lastOp' = [ NoOp EXCEPT !.op = "write", !.relPath = relPath, !.arg = content,
                                   !.recBefore = IF relPath \in DOMAIN implicitOutputMap
                                                 THEN << implicitOutputMap[relPath] >> ELSE << >> ]
        /\ sinceFlush' = IF sinceFlush = "none" THEN "none" ELSE "touched"
        /\ UNCHANGED << ids, firstID, flushes, pc, pp, task >>

\* a script allocates an id
Acquire ==
    \E r \in { acquireNextStringID(World) } :
    \E first \in { parseNextStringID(readAutoInputFileSync(World, kNextStringIDPath).content).value } :
        /\ pc = "run"
        /\ Len(ids) < MaxAllocs
        /\ Becomes(r.w)
        /\ ids' = IF r.w.threw THEN ids ELSE Append(ids, r.id)
        /\ firstID' = IF r.w.threw \/ nextStringID >= 0 THEN firstID ELSE first
        /\ lastOp' = [ NoOp EXCEPT !.op = "acquire", !.relPath = kNextStringIDPath, !.threw = r.w.threw, !.id = r.id ]
        /\ sinceFlush' = IF sinceFlush = "none" THEN "none" ELSE IF r.w.threw THEN sinceFlush ELSE "touched"
        /\ UNCHANGED << scriptWrites, flushes, pc, pp, task >>

\* the resolver is flushed; an error thrown by flush() ends the process
Flush ==
    \E w \in { flush(World) } :
        /\ pc = "run"
        /\ flushes < MaxFlushes
        /\ Becomes(w)
        /\ flushes' = flushes + 1
        /\ pc' = IF w.threw THEN "exit" ELSE "run"
        /\ lastOp' = [ NoOp EXCEPT !.op = "flush", !.threw = w.threw, !.written = w.written,
                                   !.dirtyBefore = DirtySet(World), !.log = w.log ]
        /\ sinceFlush' = "clean"
        /\ UNCHANGED << scriptWrites, ids, firstID, pp, task >>

\* the paths of a set that this run uses
Used(mixedPaths) == { mp \in mixedPaths : mp.segs \in paths }

Next ==
    \/ \E mixedPath \in Used(ReadPaths) : Read(mixedPath)
    \/ \E mixedPath \in Used(ReadPaths) : Resolve(mixedPath)
    \/ \E mixedPath \in Used(MixedPaths) : \E content \in WriteTexts(mixedPath.segs) : Write(mixedPath, content)
    \/ Acquire
    \/ Flush

Spec == Init /\ [][Next]_vars

----------------------------------------------------------------------------
(* Claims *)

\* the output record of a path before it is first resolved: no tracked content, not dirty
TrackedContent(map, relPath) == IF relPath \in DOMAIN map THEN map[relPath].content ELSE Null
IsDirty(map, relPath) == relPath \in DOMAIN map /\ map[relPath].dirty

\* the paths that received an updateOutputFile call
EverUpdated == { p \in RelPaths : lastWrite[p] # Null }

\* C1: read-after-write: a read of P that follows updateOutputFile(P, C), before any flush and
\* with no later write to P, returns exactly C, whether or not the output file existed and
\* also for the empty string
C1_ReadAfterWrite ==
    (lastOp.op = "read" /\ ~lastOp.threw /\ flushes = 0 /\ lastWrite[lastOp.relPath] # Null)
        => lastOp.content = lastWrite[lastOp.relPath]

\* C2: no redundant write: the paths handed to the file write by flush are paths a script
\* wrote, or the id ledger after an id allocation; a path only read or resolved is never written
C2_NoRedundantWrite ==
    diskWrites \subseteq (scriptWrites \cup (IF Len(ids) > 0 THEN { kNextStringIDPath } ELSE { }))

\* C2 witness: a flush wrote a script-written path and left alone a path that was only read
C2_Witness ==
    /\ lastOp.op = "flush"
    /\ diskWrites # { }
    /\ \E p \in DOMAIN implicitOutputMap :
          p \in paths /\ p \notin diskWrites /\ p \notin scriptWrites /\ p \in DOMAIN implicitInputMap

\* C3: updateOutputFile(P, C) sets dirty iff C differs from the tracked content; when C equals
\* it, dirty and content are left as they were; the second of two identical writes in
\* succession never changes dirty
C3_DirtyIffContentDiffers ==
    [][ lastOp'.op = "write" =>
          LET p == lastOp'.relPath
              c == lastOp'.arg
              tracked == TrackedContent(implicitOutputMap, p)
          IN  /\ p \in DOMAIN implicitOutputMap'
              /\ IF c # tracked
                 THEN implicitOutputMap'[p].dirty /\ implicitOutputMap'[p].content = c
                 ELSE /\ implicitOutputMap'[p].dirty = IsDirty(implicitOutputMap, p)
                      /\ implicitOutputMap'[p].content = tracked
              /\ (lastOp.op = "write" /\ lastOp.relPath = p /\ lastOp.arg = c)
                     => implicitOutputMap'[p].dirty = IsDirty(implicitOutputMap, p) ]_vars

\* C3 witness: a write of the content already tracked left a clean record clean
C3_Witness ==
    /\ lastOp.op = "write"
    /\ lastOp.recBefore # << >>
    /\ lastOp.recBefore[1].content = lastOp.arg
    /\ ~lastOp.recBefore[1].dirty
    /\ ~implicitOutputMap[lastOp.relPath].dirty

\* C4: when flush() completes without error outside a dry run, the file of every path that
\* received an updateOutputFile call holds the content of the last updateOutputFile call on that path, whatever
\* reads were interleaved
C4_FlushPersistsLastWrite ==
    (lastOp.op = "flush" /\ ~lastOp.threw /\ ~dryrun /\ sinceFlush = "clean")
        => \A p \in EverUpdated : fs[getNativePath(OutputPath, p)] = lastWrite[p]

\* the paths of the writeFileSync calls of the last operation
WrittenPaths(op) == { op.written[i].relPath : i \in 1..Len(op.written) }

UnderOutputRoot(realPath) == Len(realPath) > Len(OutputPath) /\ SubSeq(realPath, 1, Len(OutputPath)) = OutputPath
\* the string of the real path begins with the string of the output root's parent directory
BeginsWithParent(realPath) == StartsWith(Render(realPath), << "/", "m" >>)

C7_ReloadAtMostOnce == \A p \in RelPaths : reloads[p] <= 1

\* C8: the k-th id returned is v0 + (k - 1), v0 the integer parsed from the ledger at the
\* first allocation; the ids are strictly increasing and none is returned twice
C8_IdsSequential ==
    /\ \A k \in 1..Len(ids) : ids[k] = firstID + (k - 1)
    /\ \A j, k \in 1..Len(ids) : j < k => ids[j] < ids[k]

\* C8 witness: two ids were returned
C8_Witness == Len(ids) >= 2 /\ firstID >= 0

\* the contents written to the ledger by the last operation
LedgerWrites(op) == SelectSeq(op.written, LAMBDA e : e.relPath = kNextStringIDPath)

\* C9 as stated: the single flush of a run that returns persists the counter once: after an
\* allocation the ledger is written once, with v0 + (number of allocations) as its integer,
\* and without an allocation the ledger is neither written nor dirty
C9_CounterPersistedOnce ==
    (lastOp.op = "flush" /\ ~lastOp.threw /\ flushes = 1) =>
        IF Len(ids) > 0
        THEN /\ Len(LedgerWrites(lastOp)) = 1
             /\ parseNextStringID(LedgerWrites(lastOp)[1].content) =
                    [ threw |-> FALSE, value |-> firstID + Len(ids) ]
        ELSE /\ LedgerWrites(lastOp) = << >>
             /\ kNextStringIDPath \notin lastOp.dirtyBefore

\* C9 amended: the same, for runs in which no script wrote the ledger path itself
C9_CounterPersistedOnceUnlessScriptWrote ==
    (lastOp.op = "flush" /\ ~lastOp.threw /\ flushes = 1 /\ kNextStringIDPath \notin scriptWrites) =>
        IF Len(ids) > 0
        THEN /\ Len(LedgerWrites(lastOp)) = 1
             /\ parseNextStringID(LedgerWrites(lastOp)[1].content) =
                    [ threw |-> FALSE, value |-> firstID + Len(ids) ]
        ELSE /\ LedgerWrites(lastOp) = << >>
             /\ kNextStringIDPath \notin lastOp.dirtyBefore

\* C9 witness: the flush persisted a counter that grew by a digit
C9_Witness ==
    /\ lastOp.op = "flush" /\ ~lastOp.threw /\ flushes = 1
    /\ kNextStringIDPath \notin scriptWrites
    /\ firstID = 9 /\ Len(ids) > 0
    /\ Len(LedgerWrites(lastOp)) = 1

----------------------------------------------------------------------------
(* updateNextStringID as a function of its arguments *)

Alphabet == { "0", "9", "a" }
Texts == UNION { [ 1..n -> Alphabet ] : n \in 0..MaxTextLen }

InitText ==
    /\ implicitOutputMap = EmptyMap
    /\ outputOrder = << >>
    /\ implicitInputMap = EmptyMap
    /\ nextStringID = -1
    /\ fs = Files(NoFile, NoFile, NoFile, NoFile, NoFile)
    /\ dryrun = FALSE
    /\ reloads = [ p \in RelPaths |-> 0 ]
    /\ lastWrite = [ p \in RelPaths |-> Null ]
    /\ scriptWrites = { }
    /\ ids = << >>
    /\ firstID = -1
    /\ flushes = 0
    /\ diskWrites = { }
    /\ \E text \in Texts, newID \in 0..MaxNewID : lastOp = [ NoOp EXCEPT !.op = "text", !.arg = text, !.id = newID ]
    /\ pc = "text"
    /\ paths = { }
    /\ sinceFlush = "none"
    /\ pp = IdlePP
    /\ task = IdleTask

\* updateNextStringID is applied to the text and the id
UpdateText ==
    /\ pc = "text"
    /\ lastOp.op = "text"
    /\ lastOp' = [ lastOp EXCEPT !.op = "updateNextStringID", !.content = updateNextStringID(lastOp.arg, lastOp.id) ]
    /\ UNCHANGED << implicitOutputMap, outputOrder, implicitInputMap, nextStringID, fs, dryrun, reloads,
                    lastWrite, scriptWrites, ids, firstID, flushes, diskWrites, pc, paths, sinceFlush,
                    pp, task >>

NextText == UpdateText

SpecText == InitText /\ [][NextText]_vars

\* C10: updateNextStringID(text, n) replaces the first run of digits of text by the decimal
\* form of n and leaves every other character as it was, so that parseNextStringID of the
\* result is n for every text with a digit run and every n >= 0
C10_UpdateReplacesFirstRun ==
    lastOp.op = "updateNextStringID" =>
        LET text == lastOp.arg
            n == lastOp.id
            result == lastOp.content
            digitAt == { i \in 1..Len(text) : text[i] \in Digits }
        IN  IF digitAt = { } THEN result = text
            ELSE \E from \in digitAt, to \in digitAt, len \in 1..Len(result) :
                   /\ \A i \in 1..(from - 1) : text[i] \notin Digits
                   /\ \A i \in from..to : text[i] \in Digits
                   /\ to = Len(text) \/ text[to + 1] \notin Digits
                   /\ Len(result) = (from - 1) + len + (Len(text) - to)
                   /\ SubSeq(result, 1, from - 1) = SubSeq(text, 1, from - 1)
                   /\ SubSeq(result, from + len, Len(result)) = SubSeq(text, to + 1, Len(text))
                   /\ \A i \in from..(from + len - 1) : result[i] \in Digits
                   /\ (len > 1 => result[from] # "0")
                   /\ ParseInt(SubSeq(result, from, from + len - 1)) = n
                   /\ parseNextStringID(result) = [ threw |-> FALSE, value |-> n ]

\* C10 witness: a run of several digits, with text and another run after it, became a
\* number of another length
C10_Witness ==
    /\ lastOp.op = "updateNextStringID"
    /\ lastOp.arg = << "a", "9", "9", "a" >>
    /\ lastOp.id = 10
    /\ lastOp.content = << "a", "1", "0", "a" >>

----------------------------------------------------------------------------
(* pp.js: the script preprocessor.  A script text is a sequence of tokens;  *)
(* the token "\n" ends a line and the token " " is a white space character. *)

\* the position of the first "\n" of a text that has one
FirstNewline(text) == CHOOSE i \in 1..Len(text) : text[i] = "\n" /\ \A j \in 1..(i - 1) : text[j] # "\n"

\* code.split('\n')
RECURSIVE Split(_)
Split(text) ==
    IF \A i \in 1..Len(text) : text[i] # "\n" THEN << text >>
    ELSE << SubSeq(text, 1, FirstNewline(text) - 1) >> \o Split(SubSeq(text, FirstNewline(text) + 1, Len(text)))

\* lines.join('\n')
RECURSIVE Join(_)
Join(lines) ==
    IF lines = << >> THEN << >>
    ELSE IF Len(lines) = 1 THEN lines[1]
    ELSE lines[1] \o << "\n" >> \o Join(Tail(lines))

\* the line offset maybePreprocess passes to preprocessScript
kLineOffset == 0
\* depthLimit of the lib stack
kDepthLimit == 1

IsSpace(token) == token = " "

\* the number of white space tokens of a line from position from on
RECURSIVE SpaceRun(_, _)
SpaceRun(line, from) ==
    IF from > Len(line) \/ ~IsSpace(line[from]) THEN 0 ELSE 1 + SpaceRun(line, from + 1)

\* line.match(rePreprocessor): ^///[\s]+#(pragma)[\s]+(.*) ; r0[2] is rest
rePreprocessor(line) ==
    LET Rest(at) == [ matched |-> TRUE, rest |-> SubSeq(line, at, Len(line)) ]
        Pragma(at) ==
            IF at <= Len(line) /\ line[at] = "#pragma" /\ SpaceRun(line, at + 1) > 0
            THEN Rest(at + 1 + SpaceRun(line, at + 1))
            ELSE [ matched |-> FALSE, rest |-> << >> ]
    IN  IF Len(line) >= 1 /\ line[1] = "///" /\ SpaceRun(line, 2) > 0
        THEN Pragma(2 + SpaceRun(line, 2))
        ELSE [ matched |-> FALSE, rest |-> << >> ]

\* r0[2].match(rePreprocessorPragmaLib): ^(lib-begin|lib-end)[\s]*(.*) ; r1[1] is cmd, r1[2] is arg
rePreprocessorPragmaLib(rest) ==
    IF Len(rest) >= 1 /\ rest[1] \in { "lib-begin", "lib-end" }
    THEN [ matched |-> TRUE, cmd |-> rest[1], arg |-> SubSeq(rest, 2 + SpaceRun(rest, 2), Len(rest)) ]
    ELSE [ matched |-> FALSE, cmd |-> "", arg |-> << >> ]

\* reUseStrict.test(line): the template literal turns [\s]* into [s]*
reUseStrict(line) ==
    /\ Len(line) >= 1
    /\ line[1] \in { "'use strict';", "\"use strict\";" }
    /\ \A i \in 2..Len(line) : line[i] = "s"

\* new LineRun(type, data, lineBegin): lineEnd is -1 until the run is popped
LineRun(data, lineBegin) == [ lineBegin |-> lineBegin, lineEnd |-> -1, data |-> data ]

\* the locals of preprocessScript before its loop, and the call of runModScript around them
StartPP(code, cache, loaded) ==
    [ IdlePP EXCEPT !.pc = "scan", !.code = code, !.lines = Split(code), !.cache = cache,
                    !.loaded = loaded ]

\* a throw inside the try of runModScript: the call returns [ undefined, e ]
Throw(s, err, errLine) == [ s EXCEPT !.pc = "returned", !.err = err, !.errLine = errLine ]

\* a push that has no depth limit
pushUnlimited(s, lineBegin, data) ==
    [ s EXCEPT !.libStack = Append(@, LineRun(data, lineBegin)), !.nextExpectedState = "lib",
               !.lineIndex = @ + 1 ]

\* libStack.push(lineIndex, { extern: libname })
push(s, lineBegin, data) ==
    IF kDepthLimit > 0 /\ Len(s.libStack) >= kDepthLimit
    THEN Throw(s, "overflow", s.libStack[Len(s.libStack)].lineBegin)
    ELSE [ s EXCEPT !.libStack = Append(@, LineRun(data, lineBegin)), !.nextExpectedState = "lib",
                    !.lineIndex = @ + 1 ]

\* a pop that ends the block in front of the lib-end line
popAtDirective(s, lineEnd) ==
    IF Len(s.libStack) = 0 THEN Throw(s, "underflow", lineEnd - 1)
    ELSE [ s EXCEPT !.blocks = Append(@, [ s.libStack[Len(s.libStack)] EXCEPT !.lineEnd = lineEnd - 1 ]),
                    !.libStack = SubSeq(@, 1, Len(@) - 1), !.nextExpectedState = "free",
                    !.lineIndex = @ + 1 ]

\* blockSet.add(libStack.pop(lineIndex + 1))
pop(s, lineEnd) ==
    IF Len(s.libStack) = 0 THEN Throw(s, "underflow", lineEnd - 1)
    ELSE [ s EXCEPT !.blocks = Append(@, [ s.libStack[Len(s.libStack)] EXCEPT !.lineEnd = lineEnd ]),
                    !.libStack = SubSeq(@, 1, Len(@) - 1), !.nextExpectedState = "free",
                    !.lineIndex = @ + 1 ]

\* one turn of the loop of preprocessScript, on the line at s.lineIndex
ScanLine(s) ==
    LET Lib(r1) ==
            IF ~r1.matched THEN [ s EXCEPT !.lineIndex = @ + 1 ]
            ELSE IF r1.cmd = "lib-begin" THEN push(s, s.lineIndex, r1.arg)
            ELSE pop(s, s.lineIndex + 1)
        Directive(r0) ==
            IF ~r0.matched THEN [ s EXCEPT !.lineIndex = @ + 1 ]
            ELSE Lib(rePreprocessorPragmaLib(r0.rest))
    IN  Directive(rePreprocessor(s.lines[s.lineIndex + 1]))

\* new ScriptSource(code, extern, info): synth and wrapped tell which lines of code are not
\* lines of the script
ScriptSource(code, extern, lineOffset, synth) ==
    [ code |-> code, extern |-> extern, lineOffset |-> lineOffset, synth |-> synth, wrapped |-> FALSE,
      script |-> FALSE ]

UseStrict == << "'use strict';" >>

\* blockLines of addCodeBlock with the prologue put in front
Unshift(line, blockLines) == << line >> \o blockLines

\* addCodeBlock that keeps the line offset when it prepends the prologue
addCodeBlockNoShift(lines, lineOffset, lineBegin, lineEnd) ==
    IF lineEnd <= lineBegin THEN << >>
    ELSE IF ~reUseStrict(lines[lineBegin + 1])
    THEN << ScriptSource(Join(Unshift(UseStrict, SubSeq(lines, lineBegin + 1, lineEnd))), Null,
                         lineOffset + lineBegin, TRUE) >>
    ELSE << ScriptSource(Join(SubSeq(lines, lineBegin + 1, lineEnd)), Null, lineOffset + lineBegin, FALSE) >>

\* addCodeBlock that gives a segment for an empty range of lines too
addCodeBlockAlways(lines, lineOffset, lineBegin, lineEnd) ==
    IF lineEnd <= lineBegin THEN << ScriptSource(UseStrict, Null, lineOffset + lineBegin - 1, TRUE) >>
    ELSE IF ~reUseStrict(lines[lineBegin + 1])
    THEN << ScriptSource(Join(Unshift(UseStrict, SubSeq(lines, lineBegin + 1, lineEnd))), Null,
                         lineOffset + lineBegin - 1, TRUE) >>
    ELSE << ScriptSource(Join(SubSeq(lines, lineBegin + 1, lineEnd)), Null, lineOffset + lineBegin, FALSE) >>

\* addCodeBlock(lineBegin, lineEnd): the inline segment of lines[lineBegin, lineEnd), if any
addCodeBlock(lines, lineOffset, lineBegin, lineEnd) ==
    IF lineEnd <= lineBegin THEN << >>
    ELSE IF ~reUseStrict(lines[lineBegin + 1])
    THEN << ScriptSource(Join(Unshift(UseStrict, SubSeq(lines, lineBegin + 1, lineEnd))), Null,
                         lineOffset + lineBegin - 1, TRUE) >>
    ELSE << ScriptSource(Join(SubSeq(lines, lineBegin + 1, lineEnd)), Null, lineOffset + lineBegin, FALSE) >>

\* addExternCode(extern): block.extern is '$' + libname
addExternCode(libname) == << ScriptSource(Null, << "$" >> \o libname, 0, FALSE) >>

\* a complete() that gives every line outside the blocks an inline segment of its own
RECURSIVE CodeBlocksPerLine(_, _, _, _)
CodeBlocksPerLine(lines, lineOffset, lineBegin, lineEnd) ==
    IF lineEnd <= lineBegin THEN << >>
    ELSE addCodeBlock(lines, lineOffset, lineBegin, lineBegin + 1)
         \o CodeBlocksPerLine(lines, lineOffset, lineBegin + 1, lineEnd)
RECURSIVE CompleteBlocksPerLine(_, _, _, _)
CompleteBlocksPerLine(lines, lineOffset, blocks, nextCodeStart) ==
    IF blocks = << >> THEN CodeBlocksPerLine(lines, lineOffset, nextCodeStart, Len(lines))
    ELSE CodeBlocksPerLine(lines, lineOffset, nextCodeStart, Head(blocks).lineBegin)
         \o addExternCode(Head(blocks).data)
         \o CompleteBlocksPerLine(lines, lineOffset, Tail(blocks), Head(blocks).lineEnd)

\* the loop of LineBlockSet.complete over the blocks; block.disableBlock is no property of
\* a LineBlock, so that no line is ever commented out
RECURSIVE CompleteBlocks(_, _, _, _)
CompleteBlocks(lines, lineOffset, blocks, nextCodeStart) ==
    IF blocks = << >> THEN addCodeBlock(lines, lineOffset, nextCodeStart, Len(lines))
    ELSE addCodeBlock(lines, lineOffset, nextCodeStart, Head(blocks).lineBegin)
         \o addExternCode(Head(blocks).data)
         \o CompleteBlocks(lines, lineOffset, Tail(blocks), Head(blocks).lineEnd)

\* blockSet.complete()
complete(s) ==
    [ s EXCEPT !.pc = "preprocessed", !.scriptSources = CompleteBlocks(s.lines, kLineOffset, s.blocks, 0) ]

----------------------------------------------------------------------------
(* runner.js: maybePreprocess, ExternScriptResolver and runModScript *)

\* tryWrapInFunctionScope
tryWrapInFunctionScope == TRUE

WrapOpen == "(function(require) {"
WrapClose == "})();"

\* the template of maybePreprocess around a code; a null code is printed as null
WrapCode(code) == << WrapOpen, "\n" >> \o code \o << "\n", WrapClose >>

\* lines 59-66 of maybePreprocess: a single segment is wrapped in a function scope
Wrap(s) ==
    IF Len(s.scriptSources) = 1 /\ tryWrapInFunctionScope
    THEN [ s EXCEPT !.scriptSources[1].lineOffset = @ - 1, !.scriptSources[1].code = WrapCode(@),
                    !.scriptSources[1].wrapped = TRUE ]
    ELSE s

\* path.join(this.path, `${libname}.js`)
ExternLibJSPath == << << "l" >> >>
LibJSPath(libname) == Append(ExternLibJSPath, libname \o << ".js" >>)

\* the library directory: L.js is there, no other library is
LibCode == << "X" >>
ExternLibFiles == (LibJSPath(<< "L" >>) :> LibCode)

\* a cache that is never consulted: every reference reads the library file
resolveUncached(s, i) ==
    LET Entry(s1, extern, code) ==
            [ s1 EXCEPT !.cache = (extern :> code) @@ @,
                        !.scriptSources[i].code = code, !.scriptSources[i].script = TRUE ]
        Load(extern, read) ==
            IF read.err THEN Throw([ s EXCEPT !.loaded = Append(@, extern) ], "lib-read", -1)
            ELSE Entry([ s EXCEPT !.loaded = Append(@, extern) ], extern, read.content)
    IN  IF s.scriptSources[i].extern = Null THEN s
        ELSE Load(s.scriptSources[i].extern,
                  readFileSyncNoThrow(ExternLibFiles, LibJSPath(Tail(s.scriptSources[i].extern))))

\* ExternScriptResolver.resolve(scriptSource) for the segment at index i. A missing library
\* is read as [ null, null ]: err is not set, new vm.Script compiles the text `${null}`, a
\* script that does nothing, and the entry { code: null, script } is cached. Every read of
\* a library file is appended to loaded.
resolve(s, i) ==
    LET Entry(s1, extern, code) ==
            [ s1 EXCEPT !.cache = (extern :> code) @@ @,
                        !.scriptSources[i].code = code, !.scriptSources[i].script = TRUE ]
        Load(extern, read) ==
            IF read.err THEN Throw([ s EXCEPT !.loaded = Append(@, extern) ], "lib-read", -1)
            ELSE Entry([ s EXCEPT !.loaded = Append(@, extern) ], extern, read.content)
        Lookup(extern) ==
            IF extern \in DOMAIN s.cache THEN Entry(s, extern, s.cache[extern])
            ELSE Load(extern, readFileSyncNoThrow(ExternLibFiles, LibJSPath(Tail(extern))))
    IN  IF s.scriptSources[i].extern = Null THEN s ELSE Lookup(s.scriptSources[i].extern)

\* lines 67-70 of maybePreprocess: every library segment is resolved, in order
RECURSIVE ResolveFrom(_, _)
ResolveFrom(s, i) ==
    IF s.pc = "returned" \/ i > Len(s.scriptSources) THEN s ELSE ResolveFrom(resolve(s, i), i + 1)

\* maybePreprocess after preprocessScript returned
maybePreprocess(s) ==
    LET Ready(s1) == IF s1.pc = "returned" THEN s1 ELSE [ s1 EXCEPT !.pc = "run" ]
    IN  Ready(ResolveFrom(Wrap(s), 1))

\* the lines of a code that are statements: no comment, no prologue, no wrapper line, not empty
IsStatement(line) ==
    line # << >> /\ line[1] \notin { "///", "'use strict';", "\"use strict\";", WrapOpen, WrapClose, "null" }

\* the statements that run when a code is run: all of them up to the first that throws
RECURSIVE Executed(_)
Executed(statements) ==
    IF statements = << >> THEN << >>
    ELSE IF Head(statements)[1] = "throw" THEN << Head(statements) >>
    ELSE << Head(statements) >> \o Executed(Tail(statements))

\* a code in which no statement throws
ThrowsNever(statements) == FALSE

\* a statement of a code throws
Throws(statements) == \E i \in 1..Len(statements) : statements[i][1] = "throw"

\* one turn of the loop of runModScript: the segment at s.next is run in the mod's context
RunSegmentOf(s) ==
    LET Done(s1) == IF s1.next > Len(s1.scriptSources) THEN [ s1 EXCEPT !.pc = "returned" ] ELSE s1
        Run(statements) ==
            IF Throws(statements)
            THEN Throw([ s EXCEPT !.ran = Append(@, s.next),
                                  !.scope = Append(@, [ D2RMM |-> s.D2RMM, config |-> s.config ]),
                                  !.executed = @ \o [ k \in 1..Len(Executed(statements)) |->
                                                        [ segment |-> s.next, line |-> Executed(statements)[k] ] ] ],
                       "script", -1)
            ELSE Done([ s EXCEPT !.ran = Append(@, s.next), !.next = @ + 1,
                                 !.scope = Append(@, [ D2RMM |-> s.D2RMM, config |-> s.config ]),
                                 !.executed = @ \o [ k \in 1..Len(statements) |->
                                                       [ segment |-> s.next, line |-> statements[k] ] ] ])
    IN  Run(SelectSeq(Split(s.scriptSources[s.next].code), IsStatement))

\* runModScript to its return
RECURSIVE RunModScriptFrom(_)
RunModScriptFrom(s) ==
    IF s.pc = "returned" THEN s
    ELSE IF s.pc = "scan" /\ s.lineIndex < Len(s.lines) THEN RunModScriptFrom(ScanLine(s))
    ELSE IF s.pc = "scan" THEN RunModScriptFrom(complete(s))
    ELSE IF s.pc = "preprocessed" THEN RunModScriptFrom(maybePreprocess(s))
    ELSE RunModScriptFrom(RunSegmentOf(s))

----------------------------------------------------------------------------
(* The specification of one runModScript call on a script text *)

MaxLines == 5

\* the lines the scripts are made of
LineA == << "A" >>
LineB == << "B" >>
LibBegin(libname) == << "///", " ", "#pragma", " ", "lib-begin", " " >> \o libname
LibEnd == << "///", " ", "#pragma", " ", "lib-end" >>
LibL == << "L" >>
LineAlphabet == { UseStrict, LineA, LineB, LibBegin(LibL), LibEnd, << >> }

\* the script texts: every sequence of one to MaxLines lines, joined with "\n"
ScriptTexts == { Join(lines) : lines \in UNION { [ 1..n -> LineAlphabet ] : n \in 1..MaxLines } }

\* the variables of the resolver and of its history
resolverVars ==
    << implicitOutputMap, outputOrder, implicitInputMap, nextStringID, fs, dryrun, reloads, lastWrite,
       scriptWrites, ids, firstID, flushes, diskWrites, lastOp, pc, paths, sinceFlush >>

\* a resolver that nothing has used, over an empty file system
FreshResolver ==
    /\ implicitOutputMap = EmptyMap
    /\ outputOrder = << >>
    /\ implicitInputMap = EmptyMap
    /\ nextStringID = -1
    /\ reloads = [ p \in RelPaths |-> 0 ]
    /\ lastWrite = [ p \in RelPaths |-> Null ]
    /\ scriptWrites = { }
    /\ ids = << >>
    /\ firstID = -1
    /\ flushes = 0
    /\ diskWrites = { }
    /\ lastOp = NoOp
    /\ sinceFlush = "none"

InitMod ==
    /\ FreshResolver
    /\ fs = Files(NoFile, NoFile, NoFile, NoFile, NoFile)
    /\ dryrun = FALSE
    /\ paths = { }
    /\ pc = "mod"
    /\ task = IdleTask
    /\ \E code \in ScriptTexts : pp = StartPP(code, EmptyMap, << >>)

\* one turn of the loop of preprocessScript
Scan ==
    /\ pp.pc = "scan"
    /\ pp.lineIndex < Len(pp.lines)
    /\ pp' = ScanLine(pp)
    /\ UNCHANGED << resolverVars, task >>

\* the loop of preprocessScript is over: blockSet.complete()
Complete ==
    /\ pp.pc = "scan"
    /\ pp.lineIndex = Len(pp.lines)
    /\ pp' = complete(pp)
    /\ UNCHANGED << resolverVars, task >>

\* maybePreprocess goes on after preprocessScript
MaybePreprocess ==
    /\ pp.pc = "preprocessed"
    /\ pp' = maybePreprocess(pp)
    /\ UNCHANGED << resolverVars, task >>

\* runModScript runs the next segment
RunSegment ==
    /\ pp.pc = "run"
    /\ pp' = RunSegmentOf(pp)
    /\ UNCHANGED << resolverVars, task >>

NextMod == Scan \/ Complete \/ MaybePreprocess \/ RunSegment

SpecMod == InitMod /\ [][NextMod]_vars

\* the segments of a call that are inline code
InlineSegments == { i \in 1..Len(pp.scriptSources) : pp.scriptSources[i].extern = Null }
\* the lines that are a directive of the preprocessor
IsLibBegin(line) == rePreprocessor(line).matched /\ rePreprocessorPragmaLib(rePreprocessor(line).rest).cmd = "lib-begin"
IsLibEnd(line) == rePreprocessor(line).matched /\ rePreprocessorPragmaLib(rePreprocessor(line).rest).cmd = "lib-end"
\* the input was read to its end
ScannedAll == pp.pc # "scan" /\ pp.lineIndex = Len(pp.lines)

\* a lib block is open in front of line i (counted from 1): a lib-begin with no lib-end after it
LibOpenBefore(i) ==
    \E b \in 1..(i - 1) : IsLibBegin(pp.lines[b]) /\ \A j \in (b + 1)..(i - 1) : ~IsLibEnd(pp.lines[j])
\* the line (counted from 0) of the lib-begin that is open in front of line i
OpenLine(i) ==
    CHOOSE b \in 0..(i - 2) : IsLibBegin(pp.lines[b + 1]) /\ \A j \in (b + 2)..(i - 1) : ~IsLibEnd(pp.lines[j])
\* line i breaks the pairing: a lib-begin inside an open block, a lib-end outside of one
Unpaired(i) ==
    \/ IsLibBegin(pp.lines[i]) /\ LibOpenBefore(i)
    \/ IsLibEnd(pp.lines[i]) /\ ~LibOpenBefore(i)
\* the directives of the script are well-formed, non-overlapping pairs
WellFormed ==
    /\ \A i \in 1..Len(pp.lines) : ~Unpaired(i)
    /\ ~LibOpenBefore(Len(pp.lines) + 1)
\* line i belongs to a pair: it is a lib-begin, a lib-end or a line between the two
InBlock(i) == IsLibBegin(pp.lines[i]) \/ LibOpenBefore(i)
\* the lines of a text that pass a test on their index, in order
RECURSIVE LinesWhere(_, _, _)
LinesWhere(Test(_), from, to) ==
    IF from > to THEN << >>
    ELSE (IF Test(from) THEN << pp.lines[from] >> ELSE << >>) \o LinesWhere(Test, from + 1, to)
Outside(i) == ~InBlock(i)
\* the lines of an inline segment that come from the script: without prologue and wrapper
BodyLines(source) ==
    LET Unwrapped(ls) == IF source.wrapped THEN SubSeq(ls, 2, Len(ls) - 1) ELSE ls
        Body(ls) == IF source.synth THEN Tail(ls) ELSE ls
    IN  Body(Unwrapped(Split(source.code)))
\* the script lines of the inline segments among the first n segments, in order
RECURSIVE InlineLines(_)
InlineLines(n) ==
    IF n = 0 THEN << >>
    ELSE InlineLines(n - 1) \o (IF pp.scriptSources[n].extern = Null THEN BodyLines(pp.scriptSources[n]) ELSE << >>)
\* the names of the library segments among the first n segments, in order
RECURSIVE ExternNames(_)
ExternNames(n) ==
    IF n = 0 THEN << >>
    ELSE ExternNames(n - 1) \o (IF pp.scriptSources[n].extern = Null THEN << >> ELSE << pp.scriptSources[n].extern >>)
\* the arguments of the lib-begin lines among the first n lines, in order
RECURSIVE BeginArgs(_)
BeginArgs(n) ==
    IF n = 0 THEN << >>
    ELSE BeginArgs(n - 1) \o (IF IsLibBegin(pp.lines[n])
                              THEN << rePreprocessorPragmaLib(rePreprocessor(pp.lines[n]).rest).arg >> ELSE << >>)
\* the line (counted from 1) of the k-th lib-begin
BeginLine(k) == CHOOSE i \in 1..Len(pp.lines) : IsLibBegin(pp.lines[i]) /\ Len(BeginArgs(i)) = k

\* C11: a script with a lib-begin that no lib-end closes before the end of the input fails
\* in preprocessing, and none of its segments is run
C11_UnterminatedIsFatal ==
    (ScannedAll /\ LibOpenBefore(Len(pp.lines) + 1)) => (pp.err # "null" /\ pp.ran = << >>)

\* C12: for a script with well-formed pairs preprocessScript gives one library segment per
\* pair, in source order and named by the pair's lib-begin argument, and inline segments
\* that hold, in order, exactly the lines outside of the pairs: the lines in front of the
\* k-th pair come in front of the k-th library segment, no inline segment is empty and no
\* two inline segments are neighbours
C12_PairsBecomeLibrarySegments ==
    (pp.pc = "preprocessed" /\ WellFormed) =>
        /\ ExternNames(Len(pp.scriptSources)) =
              [ k \in 1..Len(BeginArgs(Len(pp.lines))) |-> << "$" >> \o BeginArgs(Len(pp.lines))[k] ]
        /\ InlineLines(Len(pp.scriptSources)) = LinesWhere(Outside, 1, Len(pp.lines))
        /\ \A i \in 1..Len(pp.scriptSources) :
              IF pp.scriptSources[i].extern = Null
              THEN /\ BodyLines(pp.scriptSources[i]) # << >>
                   /\ i > 1 => pp.scriptSources[i - 1].extern # Null
              ELSE InlineLines(i) = LinesWhere(Outside, 1, BeginLine(Len(ExternNames(i))))

\* C12 witness: the script A, lib-begin L, B, lib-end, A gave inline, library, inline
C12_Witness ==
    /\ pp.pc = "preprocessed"
    /\ pp.lines = << LineA, LibBegin(LibL), LineB, LibEnd, LineA >>
    /\ Len(pp.scriptSources) = 3
    /\ pp.scriptSources[2].extern = << "$", "L" >>

\* C13: a lib-begin inside an open block and a lib-end outside of one each end the call
\* with an error and with no segment run; the overflow error names the line of the open
\* block; a call that got past a line found no such line before it; the stack of open
\* blocks never holds more than one entry
C13_NoNestingNoUnderflow ==
    /\ Len(pp.libStack) <= 1
    /\ pp.err \notin { "overflow", "underflow" } => \A i \in 1..pp.lineIndex : ~Unpaired(i)
    /\ pp.err \in { "overflow", "underflow" } =>
          /\ pp.pc = "returned" /\ pp.ran = << >> /\ pp.scriptSources = << >>
          /\ \A i \in 1..pp.lineIndex : ~Unpaired(i)
          /\ Unpaired(pp.lineIndex + 1)
          /\ (pp.err = "overflow") = IsLibBegin(pp.lines[pp.lineIndex + 1])
          /\ pp.err = "overflow" => pp.errLine = OpenLine(pp.lineIndex + 1)

\* C13 witness: a second lib-begin on line 3 overflowed on the block opened on line 1
C13_Witness ==
    /\ pp.err = "overflow"
    /\ pp.errLine = 1
    /\ pp.lineIndex = 3
    /\ pp.ran = << >>

Synthesized(source, j) ==
    \/ source.wrapped /\ j \in { 0, Len(Split(source.code)) - 1 }
    \/ source.synth /\ j = (IF source.wrapped THEN 1 ELSE 0)

\* C15: line accuracy: in every inline segment, before and after the function-scope wrap,
\* the line at index j of the code, unless the program put it there, is the line of index
\* j + lineOffset - kLineOffset of the script
C15_LineAccuracy ==
    \A i \in InlineSegments : \A j \in 0..(Len(Split(pp.scriptSources[i].code)) - 1) :
        \/ Synthesized(pp.scriptSources[i], j)
        \/ /\ j + pp.scriptSources[i].lineOffset - kLineOffset \in 0..(Len(pp.lines) - 1)
           /\ Split(pp.scriptSources[i].code)[j + 1] = pp.lines[j + pp.scriptSources[i].lineOffset - kLineOffset + 1]

\* C15 witness: a wrapped segment with a prepended prologue that holds B, A
C15_Witness ==
    /\ pp.pc = "run"
    /\ pp.lines = << LineB, LineA >>
    /\ pp.scriptSources[1].wrapped /\ pp.scriptSources[1].synth
    /\ pp.scriptSources[1].lineOffset = -2

----------------------------------------------------------------------------
(* runner.js: runD2RMMTask *)

MaxMods == 2

\* JSON texts and JSON.parse of them.  A parsed value is a record: null tells a JSON null,
\* config holds the manifest's config array (empty when there is none), entries holds an
\* object's own properties in order, as pairs of key and value
ObjectText == << "{", "}" >>
BrokenText == << "{" >>
NullText == << "n", "u", "l", "l" >>
ManifestWithField == << "{", "config", ":", "[", "{", "id", ":", "x", ",", "defaultValue", ":", "5", "}", "]", "}" >>

\* JSON.stringify(config, null, 4) of the properties after the first
RECURSIVE StringifyRest(_)
StringifyRest(entries) ==
    IF entries = << >> THEN << >>
    ELSE << ",", "\n", "    ", Head(entries)[1], ":", " ", Head(entries)[2] >> \o StringifyRest(Tail(entries))

\* JSON.stringify(config, null, 4)
Stringify(entries) ==
    IF entries = << >> THEN ObjectText
    ELSE << "{", "\n", "    ", Head(entries)[1], ":", " ", Head(entries)[2] >> \o StringifyRest(Tail(entries))
         \o << "\n", "}" >>

\* the persisted configs of the model, as this program wrote them, with a final newline
ConfigX1 == << << "x", "1" >> >>
ConfigX1Text == Stringify(ConfigX1) \o << "\n" >>
\* the same config as a text without line breaks and indentation: {"x":1}
ConfigX1Compact == << "{", "x", ":", "1", "}" >>

\* String.prototype.trim
RECURSIVE Trim(_)
Trim(text) ==
    IF text # << >> /\ Head(text) \in { " ", "\n", "    " } THEN Trim(Tail(text))
    ELSE IF text # << >> /\ text[Len(text)] \in { " ", "\n", "    " } THEN Trim(SubSeq(text, 1, Len(text) - 1))
    ELSE text

\* JSON.parse(text) on the JSON texts of the model; any other text is a SyntaxError
JSONParse(text) ==
    IF text = ObjectText
    THEN [ threw |-> FALSE, null |-> FALSE, config |-> << >>, entries |-> << >> ]
    ELSE IF text = ManifestWithField
    THEN [ threw |-> FALSE, null |-> FALSE, config |-> << [ id |-> "x", defaultValue |-> "5" ] >>, entries |-> << >> ]
    ELSE IF Trim(text) = Stringify(ConfigX1) \/ text = ConfigX1Compact
    THEN [ threw |-> FALSE, null |-> FALSE, config |-> << >>, entries |-> ConfigX1 ]
    ELSE IF text = NullText
    THEN [ threw |-> FALSE, null |-> TRUE, config |-> << >>, entries |-> << >> ]
    ELSE [ threw |-> TRUE, null |-> FALSE, config |-> << >>, entries |-> << >> ]

\* config[id]: the value of a property, "undefined" when the object has none
Get(entries, id) ==
    IF \E k \in 1..Len(entries) : entries[k][1] = id
    THEN entries[CHOOSE k \in 1..Len(entries) : entries[k][1] = id][2]
    ELSE "undefined"

\* the property keys that are array indices: an object lists them first, in ascending
\* order, and its other keys after them in the order of their creation
IsIndex(id) == id \in Digits

\* obj[id] = value
SetProperty(entries, id, value) ==
    LET Before == Cardinality({ k \in 1..Len(entries) :
                                  IsIndex(entries[k][1]) /\ DigitVal(entries[k][1]) < DigitVal(id) })
    IN  IF \E k \in 1..Len(entries) : entries[k][1] = id
        THEN [ k \in 1..Len(entries) |-> IF entries[k][1] = id THEN << id, value >> ELSE entries[k] ]
        ELSE IF IsIndex(id)
        THEN SubSeq(entries, 1, Before) \o << << id, value >> >> \o SubSeq(entries, Before + 1, Len(entries))
        ELSE Append(entries, << id, value >>)

\* a ?? b
Coalesce(a, b) == IF a \in { "undefined", "null" } THEN b ELSE a

\* the second loop of getModConfig: newConfig[id] = modData.config[id] ?? defaultValue
RECURSIVE FillConfig(_, _, _)
FillConfig(fields, entries, newConfig) ==
    IF fields = << >> THEN newConfig
    ELSE FillConfig(Tail(fields), entries,
                    SetProperty(newConfig, Head(fields).id,
                                Coalesce(Get(entries, Head(fields).id), Head(fields).defaultValue)))

\* getModConfig(modData): the config as persisted when no field of the manifest is
\* undefined in it, or else a new object filled from the fields of the manifest
getModConfig(fields, entries) ==
    IF \A k \in 1..Len(fields) : Get(entries, fields[k].id) # "undefined" THEN entries
    ELSE FillConfig(fields, entries, << >>)

\* maybeFixupModConfig(modData, shouldSave): the text written to config.json, if one is
ConfigToSave(config, configString, shouldSave) ==
    IF ~shouldSave \/ Stringify(config) = ObjectText THEN << >>
    ELSE IF configString # NoFile /\ Stringify(config) = Trim(configString) THEN << >>
    ELSE << Stringify(config) >>

\* the statements of the scripts: D2RMM.writeTxt(path, content) and throw
WriteTxt(path, content) == << "D2RMM.writeTxt", path, content >>
ThrowLine == << "throw" >>
LibM == << "M" >>

\* the path a script names
ScriptPath(token) ==
    IF token = "g/a" THEN [ segs |-> DataPath, sep |-> "/" ]
    ELSE IF token = "g\\a" THEN [ segs |-> DataPath, sep |-> "\\" ]
    ELSE IF token = "../i" THEN [ segs |-> ParentPath, sep |-> "/" ]
    ELSE [ segs |-> EscapePath, sep |-> "/" ]

\* the scripts of the mods
ScriptWrite == Join(<< WriteTxt("g/a", "1") >>)
ScriptThrow ==
    Join(<< WriteTxt("g\\a", "2"), LibBegin(LibL), LineA, LibEnd, WriteTxt("../i", "3"), ThrowLine,
            LibBegin(LibL), LibEnd, WriteTxt("g/a", "4") >>)
ScriptMissingLib == Join(<< WriteTxt("g/a", "5"), LibBegin(LibM), LibEnd, LibBegin(LibL), LibEnd >>)
ScriptEscape == Join(<< WriteTxt("../../x", "6"), WriteTxt("g/a", "7") >>)
Scripts == { ScriptWrite, ScriptThrow, ScriptMissingLib, ScriptEscape }

\* a mod directory: the texts of mod.json, mod.js and config.json, NoFile for a missing file
ModData(mod, js, config) == [ mod |-> mod, js |-> js, config |-> config ]
ModKinds ==
    { ModData(NoFile, ScriptWrite, NoFile), ModData(BrokenText, ScriptWrite, NoFile),
      ModData(NullText, ScriptWrite, NoFile), ModData(ObjectText, NoFile, NoFile),
      ModData(ObjectText, ScriptWrite, BrokenText), ModData(ObjectText, NoFile, BrokenText),
      ModData(ManifestWithField, ScriptWrite, NoFile), ModData(ManifestWithField, ScriptWrite, ConfigX1Compact),
      ModData(ManifestWithField, ScriptWrite, ConfigX1Text) }
    \cup { ModData(ObjectText, js, NoFile) : js \in Scripts }

\* the entries of modsMap: one to MaxMods selected mods, in order
ModLists == UNION { [ 1..n -> ModKinds ] : n \in 1..MaxMods }

\* the options of a run
Options == { "clean_output_dir", "output_copy_user_input_files", "d2rmm_config_completion" }
OptionSets == { { } } \cup { { o } : o \in Options }

ModInfoPath == ParentPath
ModInfoText == << "j" >>

\* a real path lies in a directory
Within(dir, realPath) == Len(realPath) > Len(dir) /\ SubSeq(realPath, 1, Len(dir)) = dir

\* rmFilesSync(outputPath, { recursive: true, force: true }): the files under the
\* directory are removed and the directories are left; in a dry run they are listed
rmFilesSync(w, dirpath) ==
    IF w.dryrun
    THEN [ w EXCEPT !.log = Append(@, << "rmFilesSync", dirpath,
                                         { rp \in DOMAIN w.fs : Within(dirpath, rp) /\ w.fs[rp] \notin { NoFile, IsDir } } >>) ]
    ELSE [ w EXCEPT !.fs = [ rp \in DOMAIN w.fs |->
                               IF Within(dirpath, rp) /\ w.fs[rp] # IsDir THEN NoFile ELSE w.fs[rp] ] ]

\* the file of srcPath that a file of dstPath is copied from
CopySource(srcPath, dstPath, rp) == srcPath \o SubSeq(rp, Len(dstPath) + 1, Len(rp))

\* cpSync(srcPath, dstPath, { force }): a file, or the files of a directory, are copied; an
\* existing destination is kept unless force is set (the error is returned, not thrown); in
\* a dry run nothing is copied
cpSync(w, srcPath, dstPath, force) ==
    IF w.dryrun THEN [ w EXCEPT !.log = Append(@, << "cp", srcPath, dstPath >>) ]
    ELSE [ w EXCEPT !.fs = [ rp \in DOMAIN w.fs |->
                               IF /\ rp = dstPath \/ Within(dstPath, rp)
                                  /\ ExistsSync(w.fs, CopySource(srcPath, dstPath, rp))
                                  /\ w.fs[CopySource(srcPath, dstPath, rp)] # IsDir
                                  /\ force \/ ~ExistsSync(w.fs, rp)
                               THEN w.fs[CopySource(srcPath, dstPath, rp)] ELSE w.fs[rp] ] ]

\* renameSync(oldpath, newpath): fs.renameSync throws when oldpath does not exist; in a dry
\* run nothing is renamed
renameSync(w, oldpath, newpath) ==
    IF w.dryrun THEN [ w EXCEPT !.log = Append(@, << "mv", oldpath, newpath >>) ]
    ELSE IF ~ExistsSync(w.fs, oldpath) THEN [ w EXCEPT !.threw = TRUE ]
    ELSE [ w EXCEPT !.fs = [ rp \in DOMAIN w.fs |->
                               IF rp = newpath THEN w.fs[oldpath] ELSE IF rp = oldpath THEN NoFile ELSE w.fs[rp] ] ]

\* lines 149-162 of runD2RMMTask on a new resolver
Prepare(w, options) ==
    LET Clean(w1) ==
            IF "clean_output_dir" \in options
            THEN writeOutputFile(rmFilesSync(w1, OutputPath), ModInfoPath, ModInfoText)
            ELSE w1
        Copy(w1) ==
            IF "output_copy_user_input_files" \in options /\ BaseInputPath # UserInputPath /\ ~w1.threw
            THEN cpSync(w1, UserInputPath, OutputPath, TRUE)
            ELSE w1
    IN  Copy(Clean(w))

\* the resolver calls of the statements a mod ran, in order
RECURSIVE ApplyStatements(_, _)
ApplyStatements(w, executed) ==
    IF executed = << >> THEN w
    ELSE IF Head(executed).line[1] = "D2RMM.writeTxt"
    THEN ApplyStatements(updateOutputFile(w, normalizePath(ScriptPath(Head(executed).line[2])),
                                          << Head(executed).line[3] >>), Tail(executed))
    ELSE ApplyStatements(w, Tail(executed))

\* the paths the statements wrote
WrittenBy(executed) ==
    { normalizePath(ScriptPath(executed[k].line[2])) :
        k \in { k \in 1..Len(executed) : executed[k].line[1] = "D2RMM.writeTxt" } }

\* the dirty records of a world and their contents
DirtyContents(w) == [ p \in DirtySet(w) |-> w.out[p].content ]

\* a runModScript that leaves the two slots of the shared scope as the last call left them
BindStale(s, s0, modIndex, config) == [ s EXCEPT !.D2RMM = s0.D2RMM, !.config = s0.config ]

\* lines 86-87 of runModScript: upperGlobal.D2RMM is a new facade on the resolver and on
\* the mod's descriptor (the mod is named by its place in the run), upperGlobal.config is
\* the mod's config; s0 is the runner before the call
Bind(s, s0, modIndex, config) == [ s EXCEPT !.D2RMM = modIndex, !.config = config ]

\* one turn of the mod loop of runD2RMMTask, lines 166-189, on the mod at t.index:
\* [ task, pp, w, wrote ]
Iteration(t, s0, w) ==
    LET m == t.mods[t.index]
        Advance(t1) ==
            IF t1.index >= Len(t1.mods) THEN [ t1 EXCEPT !.index = @ + 1, !.pc = "flush" ]
            ELSE [ t1 EXCEPT !.index = @ + 1 ]
        Skip == [ task |-> Advance([ t EXCEPT !.skipModsCount = @ + 1, !.outcome[t.index] = "skip" ]),
                  pp |-> s0, w |-> w, wrote |-> { } ]
        \* an exception that leaves runD2RMMTask: asyncMain ends the process with fatal(e)
        Exception == [ task |-> [ t EXCEPT !.pc = "exit", !.report = "exception", !.exitCode = 1,
                                           !.outcome[t.index] = "exception" ],
                       pp |-> s0, w |-> w, wrote |-> { } ]
        \* lines 183-188
        Ran(t1, s) ==
            IF s.err # "null"
            THEN [ task |-> [ t1 EXCEPT !.pc = "flush", !.outcome[t.index] = "error",
                                        !.attempts = Append(@, t.index),
                                        !.dirtyAtBreak = DirtyContents(ApplyStatements(w, s.executed)) ],
                   pp |-> s, w |-> ApplyStatements(w, s.executed), wrote |-> WrittenBy(s.executed) ]
            ELSE [ task |-> Advance([ t1 EXCEPT !.successModsCount = @ + 1, !.outcome[t.index] = "success",
                                                !.attempts = Append(@, t.index) ]),
                   pp |-> s, w |-> ApplyStatements(w, s.executed), wrote |-> WrittenBy(s.executed) ]
        \* line 182
        Fixup(mod, config) ==
            IF mod.null THEN Exception
            ELSE Ran([ t EXCEPT !.configWrites =
                         @ \o [ k \in 1..Len(ConfigToSave(getModConfig(mod.config, config.entries), m.config,
                                                          "d2rmm_config_completion" \in t.options)) |->
                                  [ mod |-> t.index,
                                    text |-> ConfigToSave(getModConfig(mod.config, config.entries), m.config,
                                                          "d2rmm_config_completion" \in t.options)[k] ] ] ],
                     RunModScriptFrom(Bind(StartPP(m.js, s0.cache, s0.loaded), s0, t.index,
                                           getModConfig(mod.config, config.entries))))
        \* lines 174-181
        Loaded(mod, config) ==
            IF config.threw THEN Exception
            ELSE IF m.js = NoFile \/ m.js = << >> THEN Skip
            ELSE Fixup(mod, config)
        \* line 173
        Parsed(mod) ==
            IF mod.threw THEN Exception
            ELSE Loaded(mod, JSONParse(IF m.config = NoFile THEN ObjectText ELSE m.config))
    IN  IF m.mod = NoFile \/ m.mod = << >> THEN Skip ELSE Parsed(JSONParse(m.mod))

\* the environments of a run: the options, the dry-run flag, the files of the roots
InitTask ==
    /\ FreshResolver
    /\ \E options \in OptionSets, dry \in BOOLEAN, outData \in { NoFile, OldText }, userData \in { NoFile, UserText } :
          /\ dry => (outData = OldText /\ userData = UserText)
          /\ dryrun = dry
          /\ fs = Files(outData, userData, NoFile, NoFile, NoFile)
          /\ \E mods \in ModLists :
                task = [ IdleTask EXCEPT !.pc = "start", !.mods = mods, !.options = options,
                                         !.outcome = [ i \in 1..Len(mods) |-> "none" ] ]
    /\ paths = { DataPath, ParentPath, EscapePath }
    /\ pc = "run"
    /\ pp = IdlePP

\* runD2RMMTask up to its mod loop, lines 149-165
Start ==
    /\ task.pc = "start"
    /\ \E w \in { Prepare(World, task.options) } :
        /\ Becomes(w)
        /\ task' = IF w.threw
                   THEN [ task EXCEPT !.pc = "exit", !.report = "exception", !.exitCode = 1 ]
                   ELSE [ task EXCEPT !.pc = "loop", !.totalModsCount = Len(task.mods), !.fsAtLoop = w.fs ]
        /\ lastOp' = [ NoOp EXCEPT !.op = "start", !.written = w.written ]
        /\ UNCHANGED << scriptWrites, ids, firstID, flushes, pc, sinceFlush, pp >>

\* one turn of the mod loop
Iterate ==
    /\ task.pc = "loop"
    /\ \E r \in { Iteration(task, pp, World) } :
        /\ Becomes(r.w)
        /\ task' = r.task
        /\ pp' = r.pp
        /\ scriptWrites' = scriptWrites \cup r.wrote
        /\ lastOp' = [ NoOp EXCEPT !.op = "mod" ]
        /\ UNCHANGED << ids, firstID, flushes, pc, sinceFlush >>

\* runD2RMMTask after its mod loop, lines 190-195: flush, then the summary
Finish ==
    /\ task.pc = "flush"
    /\ \E w \in { flush(World) } :
        /\ Becomes(w)
        /\ flushes' = flushes + 1
        /\ task' = IF w.threw
                   THEN [ task EXCEPT !.pc = "exit", !.flushCalls = @ + 1, !.report = "exception", !.exitCode = 1 ]
                   ELSE IF task.successModsCount + task.skipModsCount = task.totalModsCount
                   THEN [ task EXCEPT !.pc = "exit", !.flushCalls = @ + 1, !.report = "DONE", !.exitCode = 0 ]
                   ELSE [ task EXCEPT !.pc = "exit", !.flushCalls = @ + 1, !.report = "FAIL", !.exitCode = 1 ]
        /\ lastOp' = [ NoOp EXCEPT !.op = "flush", !.threw = w.threw, !.written = w.written,
                                   !.dirtyBefore = DirtySet(World) ]
        /\ sinceFlush' = "clean"
        /\ UNCHANGED << scriptWrites, ids, firstID, pc, pp >>

NextTask == Start \/ Iterate \/ Finish

SpecTask == InitTask /\ [][NextTask]_vars

\* the statements of the first n segments of the last runModScript call, each with its segment
RECURSIVE SegmentStatements(_)
SegmentStatements(n) ==
    IF n = 0 THEN << >>
    ELSE SegmentStatements(n - 1)
         \o [ k \in 1..Len(SelectSeq(Split(pp.scriptSources[n].code), IsStatement)) |->
                [ segment |-> n, line |-> SelectSeq(Split(pp.scriptSources[n].code), IsStatement)[k] ] ]
\* the statements of a sequence up to the first throw, all of them when there is none
UpToThrow(tagged) ==
    IF \E k \in 1..Len(tagged) : tagged[k].line[1] = "throw"
    THEN SubSeq(tagged, 1, CHOOSE k \in 1..Len(tagged) :
                              tagged[k].line[1] = "throw" /\ \A j \in 1..(k - 1) : tagged[j].line[1] # "throw")
    ELSE tagged
\* the mods whose turn of the loop ended the loop
Stopped == { i \in 1..Len(task.mods) : task.outcome[i] \in { "error", "exception" } }

\* C16: fail-fast: the segments of a mod run in preprocess order, each at most once; what
\* ran is what the segments hold, in order, up to the first statement that throws, and
\* the segments after it do not run; after a mod that returned an error no later mod is
\* loaded or run
C16_FailFast ==
    /\ pp.pc = "returned" =>
          /\ pp.ran = [ k \in 1..Len(pp.ran) |-> k ]
          /\ Len(pp.ran) <= Len(pp.scriptSources)
          /\ pp.err \in { "null", "script" } =>
                pp.executed = UpToThrow(SegmentStatements(Len(pp.scriptSources)))
          /\ pp.err \notin { "null", "script" } => pp.executed = << >> /\ pp.ran = << >>
          /\ (pp.err = "script") =
                (pp.executed # << >> /\ pp.executed[Len(pp.executed)].line[1] = "throw")
          /\ pp.err = "script" => pp.ran[Len(pp.ran)] = pp.executed[Len(pp.executed)].segment
          /\ pp.err = "null" => Len(pp.ran) = Len(pp.scriptSources)
    /\ \A i \in Stopped : \A j \in (i + 1)..Len(task.mods) :
          task.outcome[j] = "none" /\ \A k \in 1..Len(task.attempts) : task.attempts[k] # j
    /\ \A k \in 1..Len(task.attempts) : \A l \in (k + 1)..Len(task.attempts) :
          task.attempts[k] < task.attempts[l]

\* C16 witness: the first of two mods threw in its third segment of five; the second mod
\* was not run
C16_Witness ==
    /\ task.pc = "exit"
    /\ Len(task.mods) = 2
    /\ task.mods[1].js = ScriptThrow
    /\ task.outcome = << "error", "none" >>
    /\ Len(pp.scriptSources) = 5
    /\ pp.ran = << 1, 2, 3 >>

\* the flush of the run handed the content to the file write for the path
FlushWrote(relPath, content) ==
    \E k \in 1..Len(lastOp.written) : lastOp.written[k].relPath = relPath /\ lastOp.written[k].content = content

C18_FlushedOnceAtEnd ==
    /\ task.pc = "exit" => task.flushCalls = 1
    /\ task.pc \in { "start", "loop", "flush" } => task.flushCalls = 0
    /\ task.pc \in { "loop", "flush" } => fs = task.fsAtLoop

\* the number of mods with an outcome
Count(outcome) == Cardinality({ i \in 1..Len(task.mods) : task.outcome[i] = outcome })

\* C19: success and skip counts stay within the total, each mod is counted at most once,
\* and the run ends as failed exactly when the counts fall short of the total, which is
\* exactly when a mod's script returned an error
C19_CountsAndReport ==
    /\ task.pc # "start" =>
          /\ task.successModsCount + task.skipModsCount <= task.totalModsCount
          /\ task.successModsCount = Count("success")
          /\ task.skipModsCount = Count("skip")
    /\ task.pc = "exit" =>
          /\ (task.exitCode = 1) = (task.successModsCount + task.skipModsCount < task.totalModsCount)
          /\ (task.successModsCount + task.skipModsCount < task.totalModsCount) = (Count("error") > 0)

\* C20: every run comes to flush the resolver and to print the DONE or FAIL summary: a run
\* takes at most one step per mod besides its first and last, so it is stated on the state
\* in which the process has ended
C20_EndsWithFlushAndSummary ==
    task.pc = "exit" => (task.flushCalls = 1 /\ task.report \in { "DONE", "FAIL" })

----------------------------------------------------------------------------
(* runner.js: getModConfig as a function of the manifest and the persisted config *)

MaxFields == 3
MaxPersisted == 2

\* a program that waits to apply a function to the arguments held in lastOp.arg
PureInit(op, arg) ==
    /\ implicitOutputMap = EmptyMap
    /\ outputOrder = << >>
    /\ implicitInputMap = EmptyMap
    /\ nextStringID = -1
    /\ fs = Files(NoFile, NoFile, NoFile, NoFile, NoFile)
    /\ dryrun = FALSE
    /\ reloads = [ p \in RelPaths |-> 0 ]
    /\ lastWrite = [ p \in RelPaths |-> Null ]
    /\ scriptWrites = { }
    /\ ids = << >>
    /\ firstID = -1
    /\ flushes = 0
    /\ diskWrites = { }
    /\ lastOp = [ NoOp EXCEPT !.op = op, !.arg = arg ]
    /\ pc = "call"
    /\ paths = { }
    /\ sinceFlush = "none"
    /\ pp = IdlePP
    /\ task = IdleTask

\* the function was applied: its result is held in lastOp.content
PureStep(from, to, result) ==
    /\ pc = "call"
    /\ lastOp.op = from
    /\ lastOp' = [ lastOp EXCEPT !.op = to, !.content = result ]
    /\ UNCHANGED << implicitOutputMap, outputOrder, implicitInputMap, nextStringID, fs, dryrun, reloads,
                    lastWrite, scriptWrites, ids, firstID, flushes, diskWrites, pc, paths, sinceFlush,
                    pp, task >>

\* the sequences without repetition of at most n elements of a set
DistinctSeqs(S, n) ==
    { q \in UNION { [ 1..m -> S ] : m \in 0..n } : \A i, j \in 1..Len(q) : i # j => q[i] # q[j] }

\* the ids of the fields and the default value of each
FieldIds == { "x", "y", "1", "2" }
DefaultOf(id) == IF id = "x" THEN "5" ELSE IF id = "y" THEN "6" ELSE IF id = "1" THEN "7" ELSE "8"
\* modData.mod.config: up to MaxFields fields with different ids
Manifests == { [ k \in 1..Len(q) |-> [ id |-> q[k], defaultValue |-> DefaultOf(q[k]) ] ] :
                 q \in DistinctSeqs(FieldIds, MaxFields) }

\* JSON.parse of an object text: its properties are created in the order of the text
RECURSIVE ParsedObject(_, _)
ParsedObject(pairs, obj) ==
    IF pairs = << >> THEN obj ELSE ParsedObject(Tail(pairs), SetProperty(obj, Head(pairs)[1], Head(pairs)[2]))
\* modData.config: up to MaxPersisted properties, each a number or null
PersistedValues == { "1", "null" }
PersistedConfigs ==
    { ParsedObject([ k \in 1..Len(q) |-> << q[k], v[k] >> ], << >>) :
        q \in DistinctSeqs(FieldIds, MaxPersisted), v \in [ 1..MaxPersisted -> PersistedValues ] }

InitConfig == \E fields \in Manifests, config \in PersistedConfigs : PureInit("config", << fields, config >>)

\* getModConfig is applied to the manifest and the persisted config
GetModConfig == PureStep("config", "getModConfig", getModConfig(lastOp.arg[1], lastOp.arg[2]))

NextConfig == GetModConfig

SpecConfig == InitConfig /\ [][NextConfig]_vars

\* the object has the property
Has(entries, id) == \E k \in 1..Len(entries) : entries[k][1] = id
\* the keys of an object, in its order
Keys(entries) == [ k \in 1..Len(entries) |-> entries[k][1] ]

\* C21: the effective config gives every field of the manifest its persisted value when
\* the persisted config has the field, and the default of the manifest when it has not;
\* when a field was absent the effective config lists the fields in the manifest's order
C21_EffectiveConfig ==
    lastOp.op = "getModConfig" =>
        /\ \A k \in 1..Len(lastOp.arg[1]) :
              Get(lastOp.content, lastOp.arg[1][k].id) =
                 IF Has(lastOp.arg[2], lastOp.arg[1][k].id) THEN Get(lastOp.arg[2], lastOp.arg[1][k].id)
                 ELSE lastOp.arg[1][k].defaultValue
        /\ (\E k \in 1..Len(lastOp.arg[1]) : ~Has(lastOp.arg[2], lastOp.arg[1][k].id)) =>
              Keys(lastOp.content) = [ k \in 1..Len(lastOp.arg[1]) |-> lastOp.arg[1][k].id ]

----------------------------------------------------------------------------
(* d2rmm_api.js: writeTsv and readTsv as functions of the table and of the content *)

MaxHeaders == 2
MaxRows == 2

\* the index of the first sep of a text
FirstOf(text, sep) == CHOOSE i \in 1..Len(text) : text[i] = sep /\ \A j \in 1..(i - 1) : text[j] # sep

\* text.split(sep)
RECURSIVE SplitBy(_, _)
SplitBy(text, sep) ==
    IF \E i \in 1..Len(text) : text[i] = sep
    THEN << SubSeq(text, 1, FirstOf(text, sep) - 1) >>
         \o SplitBy(SubSeq(text, FirstOf(text, sep) + 1, Len(text)), sep)
    ELSE << text >>

\* parts.join(sep)
RECURSIVE JoinBy(_, _)
JoinBy(parts, sep) ==
    IF parts = << >> THEN << >>
    ELSE IF Len(parts) = 1 THEN Head(parts)
    ELSE Head(parts) \o << sep >> \o JoinBy(Tail(parts), sep)

\* row[header] ?? '': a row is a function from its keys to its values
Field(row, header) == IF header \in DOMAIN row THEN row[header] ELSE << >>

\* writeTsv(tsvPath, { headers, rows }): the content handed to updateOutputFile
writeTsv(headers, rows) ==
    JoinBy(<< JoinBy(headers, "\t") >>
           \o [ r \in 1..Len(rows) |-> JoinBy([ h \in 1..Len(headers) |-> Field(rows[r], headers[h]) ], "\t") ]
           \o << << >> >>, "\n")

\* String(undefined), the key that row[headers[index]] sets when the line has more values
\* than there are headers
UndefinedKey == << "undefined" >>
HeaderAt(headers, index) == IF index <= Len(headers) THEN headers[index] ELSE UndefinedKey

\* the row of a line: row[headers[index]] = value for the values in order
RowOf(headers, values) ==
    [ key \in { HeaderAt(headers, i) : i \in 1..Len(values) } |->
        values[CHOOSE i \in 1..Len(values) :
                  HeaderAt(headers, i) = key /\ \A j \in (i + 1)..Len(values) : HeaderAt(headers, j) # key] ]

\* readTsv without its test of an empty line
KeepAllLines(rowsRaw) == rowsRaw

\* if (rowStr === '') continue
SkipEmptyLines(rowsRaw) == SelectSeq(rowsRaw, LAMBDA rowStr : rowStr # << >>)

\* readTsv(tsvPath) on the content that readAutoInputFileSync returned
readTsv(content) ==
    LET Rows(headers, rowsRaw) == [ r \in 1..Len(rowsRaw) |-> RowOf(headers, SplitBy(rowsRaw[r], "\t")) ]
        Table(lines) == [ headers |-> SplitBy(Head(lines), "\t"),
                          rows |-> Rows(SplitBy(Head(lines), "\t"), SkipEmptyLines(Tail(lines))) ]
    IN  Table(SplitBy(content, "\n"))

\* the tables of the model: header lists of up to MaxHeaders names, up to MaxRows rows that
\* give a value to some of the headers; a value is empty, a letter or holds a tab
HeaderNames == { << "h" >>, << "k" >> }
CellValues == { << >>, << "a" >>, << "a", "\t", "a" >> }
HeaderLists == UNION { [ 1..n -> HeaderNames ] : n \in 0..MaxHeaders }
RowsOver(headers) ==
    UNION { [ keys -> CellValues ] : keys \in SUBSET { headers[i] : i \in 1..Len(headers) } }
Tables ==
    UNION { { [ headers |-> headers, rows |-> rows ] :
                rows \in UNION { [ 1..n -> RowsOver(headers) ] : n \in 0..MaxRows } } :
            headers \in HeaderLists }

InitTsv == \E table \in Tables : PureInit("table", table)

\* writeTsv turns the table into content
WriteTsv ==
    /\ pc = "call"
    /\ lastOp.op = "table"
    /\ lastOp' = [ lastOp EXCEPT !.op = "writeTsv", !.content = writeTsv(lastOp.arg.headers, lastOp.arg.rows) ]
    /\ UNCHANGED << implicitOutputMap, outputOrder, implicitInputMap, nextStringID, fs, dryrun, reloads,
                    lastWrite, scriptWrites, ids, firstID, flushes, diskWrites, pc, paths, sinceFlush,
                    pp, task >>

\* readTsv reads the content back
ReadTsv ==
    /\ pc = "call"
    /\ lastOp.op = "writeTsv"
    /\ lastOp' = [ lastOp EXCEPT !.op = "readTsv", !.info = readTsv(lastOp.content) ]
    /\ UNCHANGED << implicitOutputMap, outputOrder, implicitInputMap, nextStringID, fs, dryrun, reloads,
                    lastWrite, scriptWrites, ids, firstID, flushes, diskWrites, pc, paths, sinceFlush,
                    pp, task >>

NextTsv == WriteTsv \/ ReadTsv

SpecTsv == InitTsv /\ [][NextTsv]_vars

\* C22: reading back the content written for a table gives the headers and the rows of
\* the table, in order
C22_RoundTrip ==
    lastOp.op = "readTsv" => lastOp.info = lastOp.arg

\* a text holds a tab or a newline
HasSeparator(text) == \E i \in 1..Len(text) : text[i] \in { "\t", "\n" }
\* a table that the format can hold: at least one header, a value for every header in
\* every row, no tab or newline in a header or a value, and no row that is written as an
\* empty line
Representable(table) ==
    /\ table.headers # << >>
    /\ \A h \in 1..Len(table.headers) : ~HasSeparator(table.headers[h])
    /\ \A r \in 1..Len(table.rows) :
          /\ DOMAIN table.rows[r] = { table.headers[h] : h \in 1..Len(table.headers) }
          /\ \A key \in DOMAIN table.rows[r] : ~HasSeparator(table.rows[r][key])
          /\ JoinBy([ h \in 1..Len(table.headers) |-> Field(table.rows[r], table.headers[h]) ], "\t") # << >>

\* C22, amended: reading back the content written for a table that the format can hold
\* gives the headers and the rows of the table, in order
C22_RoundTripOfRepresentable ==
    (lastOp.op = "readTsv" /\ Representable(lastOp.arg)) => lastOp.info = lastOp.arg

\* C22 witness: a table of two headers and two rows, one with an empty value, was written
\* and read back
C22_Witness ==
    /\ lastOp.op = "readTsv"
    /\ Representable(lastOp.arg)
    /\ Len(lastOp.arg.headers) = 2
    /\ Len(lastOp.arg.rows) = 2
    /\ lastOp.arg.headers[1] # lastOp.arg.headers[2]
    /\ lastOp.arg.rows[1][lastOp.arg.headers[1]] = << >>
    /\ lastOp.info = lastOp.arg

----------------------------------------------------------------------------
(* The operations that write to the file system, in a dry run and in a real one *)

\* the files outside the roots: a file of a mod, the config.json of the mod, a save file
\* and its backup
ModAssetPath == << << "M" >>, << "f" >> >>
ModConfigPath == << << "M" >>, << "c" >> >>
SavePath == << << "s" >>, << "v" >> >>
SaveBakPath == << << "s" >>, << "v", ".bak" >> >>
AssetText == << "A" >>
SaveText == << "S" >>
SaveOut == << "T" >>

\* SimD2RMM.copyFile(mixedSrcPath, mixedDstPath, overwrite) on the real paths
copyFile(w, srcPath, dstPath, overwrite) ==
    IF ~ExistsSync(w.fs, srcPath) THEN [ w EXCEPT !.threw = TRUE ]
    ELSE cpSync(mkdirSync(w, Dirname(dstPath)), srcPath, dstPath, overwrite)

\* maybeFixupModConfig(modData, true) for the manifest fields and the config.json text read
maybeFixupModConfig(w, fields, configString) ==
    LET Save(texts) == IF texts = << >> THEN w ELSE writeFileSync(w, ModConfigPath, ModConfigPath, texts[1])
    IN  Save(ConfigToSave(getModConfig(fields, JSONParse(IF configString = NoFile THEN ObjectText
                                                         ELSE configString).entries),
                          configString, TRUE))

\* the end of a turn of the loop of runD2STask for a binary save: the old file is renamed
\* to its backup and the new one is written
saveD2S(w) ==
    LET Written(w1) == IF w1.threw THEN w1 ELSE writeFileSync(w1, SavePath, SavePath, SaveOut)
    IN  Written(renameSync(w, SavePath, SaveBakPath))

InitDry ==
    /\ FreshResolver
    /\ \E outData \in { NoFile, OldText }, save \in { NoFile, SaveText } :
          fs = (ModAssetPath :> AssetText) @@ (ModConfigPath :> NoFile) @@ (SavePath :> save)
               @@ (SaveBakPath :> NoFile) @@ Files(outData, UserText, NoFile, NoFile, NoFile)
    /\ dryrun \in BOOLEAN
    /\ paths = { DataPath }
    /\ pc = "run"
    /\ pp = IdlePP
    /\ task = IdleTask

\* an operation other than those of the resolver took the world to w
DryStep(op, arg, w) ==
    /\ Becomes(w)
    /\ pc' = IF w.threw THEN "exit" ELSE "run"
    /\ lastOp' = [ NoOp EXCEPT !.op = op, !.arg = arg, !.threw = w.threw, !.written = w.written, !.log = w.log ]
    /\ UNCHANGED << scriptWrites, ids, firstID, flushes, sinceFlush, pp, task >>

\* lines 149-162 of runD2RMMTask
PrepareOutput(options) ==
    /\ pc = "run"
    /\ DryStep("prepare", options, Prepare(World, options))

\* a mod's config is completed and saved
FixupModConfig(configString) ==
    /\ pc = "run"
    /\ DryStep("config", configString,
               maybeFixupModConfig(World, JSONParse(ManifestWithField).config, configString))

\* a script copies the file of its mod to a path of the output
CopyFile(mixedDstPath, overwrite) ==
    /\ pc = "run"
    /\ DryStep("copyFile", << mixedDstPath, overwrite >>,
               copyFile(World, ModAssetPath, getNativePath(OutputPath, normalizePath(mixedDstPath)), overwrite))

\* a converted save is stored
SaveD2S ==
    /\ pc = "run"
    /\ DryStep("save", Null, saveD2S(World))

NextDry ==
    \/ \E mixedPath \in Used(MixedPaths) : Write(mixedPath, NewText)
    \/ Flush
    \/ \E options \in { { "clean_output_dir" }, { "output_copy_user_input_files" } } : PrepareOutput(options)
    \/ \E configString \in { NoFile, ConfigX1Text } : FixupModConfig(configString)
    \/ \E mixedDstPath \in Used(MixedPaths) : \E overwrite \in BOOLEAN : CopyFile(mixedDstPath, overwrite)
    \/ SaveD2S

SpecDry == InitDry /\ [][NextDry]_vars

\* the world of the state with the dry-run flag cleared
WetWorld == [ World EXCEPT !.dryrun = FALSE ]
\* the file system after the step's operation when it starts from the state's world with
\* the dry-run flag cleared
WetFiles ==
    IF lastOp'.op = "flush" THEN flush(WetWorld).fs
    ELSE IF lastOp'.op = "prepare" THEN Prepare(WetWorld, lastOp'.arg).fs
    ELSE IF lastOp'.op = "config"
    THEN maybeFixupModConfig(WetWorld, JSONParse(ManifestWithField).config, lastOp'.arg).fs
    ELSE IF lastOp'.op = "copyFile"
    THEN copyFile(WetWorld, ModAssetPath, getNativePath(OutputPath, normalizePath(lastOp'.arg[1])),
                  lastOp'.arg[2]).fs
    ELSE IF lastOp'.op = "save" THEN saveD2S(WetWorld).fs
    ELSE fs

\* C23: in a dry run no operation changes the file system: flush, writeOutputFile, the
\* saving of a config, copyFile, the cleaning of the output directory, the copy of the user
\* files, the creation of a directory and the renaming of a save leave every file and
\* directory as it was, and an operation that changes the file system in a real run logs
\* what it would have done
C23_DryRunChangesNothing ==
    [][dryrun => (fs' = fs /\ (WetFiles # fs => lastOp'.log # << >>))]_vars

\* C23 witness: in a dry run a flush had a dirty record of a file that does not exist; it
\* logged the directory and the file and the file still does not exist
C23_Witness ==
    /\ dryrun
    /\ lastOp.op = "flush"
    /\ DataPath \in lastOp.dirtyBefore
    /\ Len(lastOp.log) >= 2
    /\ ~ExistsSync(fs, getNativePath(OutputPath, DataPath))

----------------------------------------------------------------------------
(* d2rmm_api.js: the reads of a script, over files that are absent, readable or unreadable *)

\* a JSON text with a comment: JSON.parse refuses it, jsonc.parse gives {}
CommentedText == << "{", "/*c*/", "}" >>

\* jsonc.parse(content, jsoncErrors, { allowTrailingComma: true }): the errors it found
jsoncParse(content) ==
    IF content = CommentedText THEN [ threw |-> FALSE ] ELSE [ threw |-> JSONParse(content).threw ]

\* tryParseJSON(content, knownType) on the texts of the model
tryParseJSON(content, knownType) ==
    IF (knownType = Null \/ knownType = << "json" >>) /\ ~JSONParse(content).threw
    THEN [ parseError |-> FALSE, type |-> << "json" >> ]
    ELSE IF ~jsoncParse(content).threw THEN [ parseError |-> FALSE, type |-> << "jsonc" >> ]
    ELSE [ parseError |-> TRUE, type |-> Null ]

\* what a call of the facade gives its script: outcome is "value" when it returns a value
\* read from the content, "error value" when it returns an Error object, "throw" when it
\* throws; err tells that the resolver met an I/O failure; warned that console.warn
\* reported the content as JSONC
FacadeResult(r, outcome) ==
    [ w |-> r.w, content |-> r.content, err |-> r.err \/ r.w.threw, outcome |-> outcome, warned |-> FALSE ]

\* SimD2RMM.readTxt(txtPath)
readTxt(w, relPath) ==
    LET Result(r) ==
            IF r.w.threw \/ r.err THEN FacadeResult(r, "throw")
            ELSE IF r.content = Null THEN FacadeResult(r, "throw")
            ELSE FacadeResult(r, "value")
    IN  Result(readAutoInputFileSync(w, relPath))

\* SimD2RMM.readJson(jsonPath): the record that the content came from remembers the type
readJson(w, relPath) ==
    LET knownType(r) == IF r.info = "output" THEN r.w.out[relPath].type ELSE r.w.inp[relPath].type
        Typed(r, type) ==
            [ r EXCEPT !.w = IF r.info = "output" THEN [ r.w EXCEPT !.out[relPath].type = type ]
                             ELSE [ r.w EXCEPT !.inp[relPath].type = type ] ]
        Parsed(r, parsed) ==
            IF parsed.parseError THEN FacadeResult(r, "throw")
            ELSE [ FacadeResult(Typed(r, parsed.type), "value") EXCEPT !.warned = (parsed.type # << "json" >>) ]
        Result(r) ==
            IF r.w.threw THEN FacadeResult(r, "throw")
            ELSE IF r.err THEN FacadeResult(r, "error value")
            ELSE IF r.content = Null THEN FacadeResult(r, "throw")
            ELSE Parsed(r, tryParseJSON(r.content, knownType(r)))
    IN  Result(readAutoInputFileSync(w, relPath))

\* SimD2RMM.readTsv(tsvPath) up to the parsing of the content
readTsvFile(w, relPath) ==
    LET Result(r) ==
            IF r.w.threw THEN FacadeResult(r, "throw")
            ELSE IF r.err THEN FacadeResult(r, "error value")
            ELSE IF r.content = Null THEN FacadeResult(r, "throw")
            ELSE FacadeResult(r, "value")
    IN  Result(readAutoInputFileSync(w, relPath))

\* the files of a run whose data file or ledger may be a directory, which cannot be read
\* as a file, or an empty file
InitRead ==
    /\ FreshResolver
    /\ paths \in { { DataPath }, { kNextStringIDPath } }
    /\ \E outData \in { NoFile, OldText, IsDir, << >> }, userData \in { NoFile, UserText, IsDir },
          baseData \in { NoFile, ObjectText, IsDir }, baseLedger \in { NoFile, BaseLedger, IsDir } :
          /\ DataPath \notin paths => outData = NoFile /\ userData = NoFile /\ baseData = NoFile
          /\ kNextStringIDPath \notin paths => baseLedger = NoFile
          /\ fs = Files(outData, userData, baseData, NoFile, baseLedger)
    /\ dryrun = FALSE
    /\ pc = "run"
    /\ pp = IdlePP
    /\ task = IdleTask

\* a script calls a read of the facade; an error thrown into the script ends its mod
FacadeRead(op, relPath, r) ==
    /\ pc = "run"
    /\ Becomes(r.w)
    /\ pc' = IF r.outcome = "throw" THEN "exit" ELSE "run"
    /\ lastOp' = [ NoOp EXCEPT !.op = op, !.relPath = relPath, !.content = r.content, !.err = r.err, !.info = r.outcome,
                                !.threw = (r.outcome = "throw"), !.warned = r.warned ]
    /\ UNCHANGED << scriptWrites, ids, firstID, flushes, sinceFlush, pp, task >>

ReadTxt(mixedPath) ==
    FacadeRead("readTxt", normalizePath(mixedPath), readTxt(World, normalizePath(mixedPath)))

ReadJson(mixedPath) ==
    FacadeRead("readJson", normalizePath(mixedPath), readJson(World, normalizePath(mixedPath)))

ReadTsvFile(mixedPath) ==
    FacadeRead("readTsv", normalizePath(mixedPath), readTsvFile(World, normalizePath(mixedPath)))

NextRead ==
    \/ \E mixedPath \in Used(MixedPaths) : Read(mixedPath)
    \/ \E mixedPath \in Used(MixedPaths) : \E content \in { << >>, NewText } : Write(mixedPath, content)
    \/ \E mixedPath \in Used(MixedPaths) : ReadTxt(mixedPath)
    \/ \E mixedPath \in Used(MixedPaths) : ReadJson(mixedPath)
    \/ \E mixedPath \in Used(MixedPaths) : ReadTsvFile(mixedPath)
    \/ Acquire

SpecRead == InitRead /\ [][NextRead]_vars

\* the file of a path in a root: NoFile when the root has none
CopyIn(root, relPath) ==
    IF getNativePath(root, relPath) \in DOMAIN fs THEN fs[getNativePath(root, relPath)] ELSE NoFile
\* the read returned null content, null error and null record, and did not throw
NotFoundTriple(op) == op.content = Null /\ ~op.err /\ op.info = "null" /\ ~op.threw
\* an I/O failure carries an error, and not-found is returned for absent paths only: an
\* error is returned or thrown only when a copy of the path cannot be read; an unreadable
\* output copy makes the read throw; an unreadable input copy that the read is served
\* from makes it return the error; the not-found result is given only for a path that no
\* input root has
IOFailureCarriesError(relPath) ==
    /\ (lastOp'.err \/ lastOp'.threw) =>
          (lastOp'.content = Null /\ \E root \in Roots : CopyIn(root, relPath) = IsDir)
    /\ CopyIn(OutputPath, relPath) = IsDir => lastOp'.threw
    /\ ( /\ CopyIn(OutputPath, relPath) \in { NoFile, << >> }
         /\ ~Truthy(TrackedContent(implicitOutputMap, relPath))
         /\ \/ CopyIn(UserInputPath, relPath) = IsDir
            \/ CopyIn(UserInputPath, relPath) = NoFile /\ CopyIn(BaseInputPath, relPath) = IsDir )
          => (lastOp'.err /\ ~lastOp'.threw)
    /\ NotFoundTriple(lastOp') =>
          (CopyIn(UserInputPath, relPath) = NoFile /\ CopyIn(BaseInputPath, relPath) = NoFile)

\* C24: readAutoInputFileSync of a path that no input root has and that has no tracked
\* output content returns null content, null error and null record and does not throw; an
\* I/O failure carries an error and so differs from it
C24_AbsentFromInputsIsNotFound ==
    [][lastOp'.op = "read" =>
          /\ ( /\ CopyIn(UserInputPath, lastOp'.relPath) = NoFile
               /\ CopyIn(BaseInputPath, lastOp'.relPath) = NoFile
               /\ TrackedContent(implicitOutputMap, lastOp'.relPath) = Null )
                => NotFoundTriple(lastOp')
          /\ IOFailureCarriesError(lastOp'.relPath)]_vars

\* C24, amended: readAutoInputFileSync of a path that no root has, the output root
\* included, and that has no tracked output content returns null content, null error and
\* null record and does not throw; an I/O failure carries an error and so differs from it
C24_AbsentFromRootsIsNotFound ==
    [][lastOp'.op = "read" =>
          /\ ( /\ \A root \in Roots : CopyIn(root, lastOp'.relPath) = NoFile
               /\ TrackedContent(implicitOutputMap, lastOp'.relPath) = Null )
                => NotFoundTriple(lastOp')
          /\ IOFailureCarriesError(lastOp'.relPath)]_vars

\* C24 witness: a read of a path that no root has returned the three nulls
C24_Witness ==
    /\ lastOp.op = "read"
    /\ \A root \in Roots : CopyIn(root, lastOp.relPath) = NoFile
    /\ NotFoundTriple(lastOp)

\* the reads a script makes through the facade
FacadeReads == { "readTxt", "readJson", "readTsv" }

\* C25: a read of a path that no root has and that has no tracked output content, made
\* through readTxt, readJson or readTsv, or by acquireNextStringID for the id ledger, does
\* not throw and does not end the mod
C25_NotFoundNeverThrows ==
    ( /\ lastOp.op \in FacadeReads \cup { "acquire" }
      /\ \A root \in Roots : CopyIn(root, lastOp.relPath) = NoFile
      /\ TrackedContent(implicitOutputMap, lastOp.relPath) = Null )
    => (~lastOp.threw /\ pc = "run")

\* C26: an I/O failure met by readTxt, readJson or readTsv is thrown into the script and
\* ends the mod; it is never returned to the script as a value
C26_IOFailureIsThrown ==
    (lastOp.op \in FacadeReads /\ lastOp.err) => (lastOp.threw /\ lastOp.info = "throw" /\ pc = "exit")

-----------------------------------------------------------------------------
\* Library references of the mods of a run (SpecTask)

\* the library file of a reference does not exist
MissingLib(extern) == ~ExistsSync(ExternLibFiles, LibJSPath(Tail(extern)))

\* the segments of the last runModScript call that reference a library
ExternSegments == { i \in 1..Len(pp.scriptSources) : pp.scriptSources[i].extern # Null }

\* C27: when a mod references a library whose file does not exist, runModScript returns an
\* error, no segment of the mod was run, and the cache holds no entry for the library
C27_MissingLibraryIsFatal ==
    pp.pc = "returned" =>
        \A i \in ExternSegments :
            MissingLib(pp.scriptSources[i].extern) =>
                /\ pp.err # "null"
                /\ pp.ran = << >>
                /\ pp.scriptSources[i].extern \notin DOMAIN pp.cache

\* C28: over a run, no library name is read from disk and compiled twice, and every
\* library segment of a mod holds the code and the compiled script of the cache entry of
\* its name
C28_LoadedAtMostOnce ==
    /\ \A i, j \in 1..Len(pp.loaded) : pp.loaded[i] = pp.loaded[j] => i = j
    /\ pp.pc = "returned" =>
          \A i \in ExternSegments :
              /\ pp.scriptSources[i].extern \in DOMAIN pp.cache
              /\ pp.scriptSources[i].code = pp.cache[pp.scriptSources[i].extern]
              /\ pp.scriptSources[i].script

\* the second of two mods has run a script that names the library L twice, after the
\* first mod had loaded L: L was read once
C28_Witness ==
    /\ pp.pc = "returned"
    /\ Len(task.attempts) = 2
    /\ task.mods[1].js = ScriptMissingLib
    /\ task.mods[2].js = ScriptThrow
    /\ Cardinality({ i \in ExternSegments : pp.scriptSources[i].extern = << "$" >> \o LibL }) = 2
    /\ Cardinality({ k \in 1..Len(pp.loaded) : pp.loaded[k] = << "$" >> \o LibL }) = 1

-----------------------------------------------------------------------------
\* Mod selection: lines 127-147 of runD2RMMTask as a function of the settings and the task

MaxOrdered == 2
MaxListed == 1

\* names of mod directories; 1 is an array index, which an object lists before its other
\* keys; constructor is also the name of a property that every plain object inherits
\* from Object.prototype
ModNames == { "a", "1", "constructor" }
ObjectPrototype == { "constructor", "toString", "valueOf", "hasOwnProperty", "isPrototypeOf",
                     "propertyIsEnumerable", "toLocaleString" }

\* obj[id] of a plain object: its own property, or else the property it inherits
GetProperty(entries, id) ==
    IF \E k \in 1..Len(entries) : entries[k][1] = id
    THEN (CHOOSE e \in { entries[k] : k \in 1..Len(entries) } : e[1] = id)[2]
    ELSE IF id \in ObjectPrototype THEN "function" ELSE "undefined"

\* !value for the values of the enable map
Falsy(value) == value \in { "undefined", "false" }

\* for (let modName of list) modEnableMap[modName] = value
RECURSIVE SetAll(_, _, _)
SetAll(entries, list, value) ==
    IF list = << >> THEN entries ELSE SetAll(SetProperty(entries, Head(list), value), Tail(list), value)

\* list ?? []
OrEmpty(list) == IF list = Null THEN << >> ELSE list

\* the last loop: an entry of modsMap is made for every name of the order whose value in
\* the enable map is not falsy
RECURSIVE FillModsMap(_, _, _)
FillModsMap(modNamesOrdered, modEnableMap, modsMap) ==
    IF modNamesOrdered = << >> THEN modsMap
    ELSE FillModsMap(Tail(modNamesOrdered), modEnableMap,
                     IF Falsy(GetProperty(modEnableMap, Head(modNamesOrdered))) THEN modsMap
                     ELSE SetProperty(modsMap, Head(modNamesOrdered), Head(modNamesOrdered)))

\* modsMap after line 147, as the list of its entries: modEnableMap is a copy of
\* enabled-mods in which the names of override_ordered_mods, then of include_mods, are set
\* to true and the names of exclude_mods are then set to false; modNamesOrdered is
\* override_ordered_mods ?? mods-order with the names of include_mods pushed onto it
SelectMods(enabledMods, modsOrder, overrideOrderedMods, includeMods, excludeMods) ==
    FillModsMap((IF overrideOrderedMods = Null THEN modsOrder ELSE overrideOrderedMods) \o OrEmpty(includeMods),
                SetAll(SetAll(SetAll(enabledMods, OrEmpty(overrideOrderedMods), "true"),
                              OrEmpty(includeMods), "true"),
                       OrEmpty(excludeMods), "false"),
                << >>)

\* config.d2rmm['enabled-mods']: some names with true or false
EnabledMaps ==
    { ParsedObject(SelectSeq(<< << "a", v[1] >>, << "1", v[2] >>, << "constructor", v[3] >> >>,
                             LAMBDA e : e[2] # "undefined"), << >>) :
        v \in [ 1..3 -> { "true", "false", "undefined" } ] }
\* config.d2rmm['mods-order']
ModOrders == DistinctSeqs(ModNames, MaxOrdered)
\* override_ordered_mods, include_mods, exclude_mods: absent, or a list of names
ModListsOrNone == { Null } \cup DistinctSeqs(ModNames, MaxListed)

InitSelect ==
    \E enabledMods \in EnabledMaps, modsOrder \in ModOrders,
       overrideOrderedMods \in ModListsOrNone, includeMods \in ModListsOrNone, excludeMods \in ModListsOrNone :
        PureInit("select", << enabledMods, modsOrder, overrideOrderedMods, includeMods, excludeMods >>)

\* the mods of the run are selected
Select ==
    PureStep("select", "selected",
             SelectMods(lastOp.arg[1], lastOp.arg[2], lastOp.arg[3], lastOp.arg[4], lastOp.arg[5]))

NextSelect == Select

SpecSelect == InitSelect /\ [][NextSelect]_vars

\* the names of a list
Names(list) == { OrEmpty(list)[k] : k \in 1..Len(OrEmpty(list)) }

\* the precedence of the claim: exclude list over include list over override list over
\* the enable map
EnabledAfterOverrides(name, arg) ==
    IF name \in Names(arg[5]) THEN FALSE
    ELSE IF name \in Names(arg[4]) \/ name \in Names(arg[3]) THEN TRUE
    ELSE \E k \in 1..Len(arg[1]) : arg[1][k] = << name, "true" >>

\* C29: the selected mods are enabled after the overrides (enable map, then override list,
\* then include list, then exclude list); no name of exclude_mods is selected; every name
\* of include_mods that is not in exclude_mods is selected
C29_Selection ==
    lastOp.op = "selected" =>
        /\ \A name \in Names(Keys(lastOp.content)) : EnabledAfterOverrides(name, lastOp.arg)
        /\ \A name \in Names(lastOp.arg[5]) : name \notin Names(Keys(lastOp.content))
        /\ \A name \in Names(lastOp.arg[4]) \ Names(lastOp.arg[5]) : name \in Names(Keys(lastOp.content))

-----------------------------------------------------------------------------
\* Mods without a manifest or without a script (SpecTask)

\* mod.json or mod.js of a mod directory does not exist
ManifestOrScriptMissing(m) == m.mod = NoFile \/ m.js = NoFile

\* C30: a turn of the mod loop on a mod whose manifest or script is missing runs no code
\* of it, adds one to the skip count and nothing to the success count, is no failure,
\* and goes on to the next mod
C30_MissingIsSkipped ==
    [][(task.pc = "loop" /\ ManifestOrScriptMissing(task.mods[task.index])) =>
          /\ task'.outcome[task.index] = "skip"
          /\ task'.skipModsCount = task.skipModsCount + 1
          /\ task'.successModsCount = task.successModsCount
          /\ task'.attempts = task.attempts
          /\ scriptWrites' = scriptWrites
          /\ task'.exitCode = -1
          /\ task'.index = task.index + 1
          /\ task'.pc = IF task.index < Len(task.mods) THEN "loop" ELSE "flush"]_vars

-----------------------------------------------------------------------------
\* The resolver beside copyFile: scripts read, resolve and write a path, copy a file of
\* their mod to a path given relative to the output root, and the resolver is flushed

\* a destination of copyFile that leaves the output root and names the data file of the
\* user input root
UserDataDst == [ segs |-> << DotDot, DotDot >> \o UserInputPath \o DataPath, sep |-> "/" ]

InitOverlay ==
    /\ FreshResolver
    /\ \E outData \in { NoFile, OldText }, userData \in { NoFile, UserText }, baseData \in { NoFile, BaseText } :
          fs = (ModAssetPath :> AssetText) @@ Files(outData, userData, baseData, NoFile, NoFile)
    /\ dryrun = FALSE
    /\ paths = { DataPath }
    /\ pc = "run"
    /\ pp = IdlePP
    /\ task = IdleTask

NextOverlay ==
    \/ \E mixedPath \in Used(MixedPaths) : Read(mixedPath)
    \/ \E mixedPath \in Used(MixedPaths) : Resolve(mixedPath)
    \/ \E mixedPath \in Used(MixedPaths) : Write(mixedPath, NewText)
    \/ \E mixedPath \in Used(MixedPaths) : ReadTxt(mixedPath)
    \/ \E mixedDstPath \in Used(MixedPaths) \cup { UserDataDst } : \E overwrite \in BOOLEAN :
          CopyFile(mixedDstPath, overwrite)
    \/ Flush

SpecOverlay == InitOverlay /\ [][NextOverlay]_vars

\* the copy of a path in the user input root if there is one, or else the copy in the
\* base input root, or else none
PriorityPath(files, relPath) ==
    IF ExistsSync(files, getNativePath(UserInputPath, relPath)) THEN getNativePath(UserInputPath, relPath)
    ELSE IF ExistsSync(files, getNativePath(BaseInputPath, relPath)) THEN getNativePath(BaseInputPath, relPath)
    ELSE NoPath

\* C31: a new input record is bound to the copy of the user input root when that root has
\* the path, or else to the copy of the base input root; an input record that exists
\* keeps its relPath and realPath at every step, whatever the disk holds by then
C31_InputBinding ==
    [][\A p \in DOMAIN implicitInputMap' :
          IF p \in DOMAIN implicitInputMap
          THEN /\ implicitInputMap'[p].realPath = implicitInputMap[p].realPath
               /\ implicitInputMap'[p].relPath = implicitInputMap[p].relPath
          ELSE /\ implicitInputMap'[p].realPath = PriorityPath(fs, p)
               /\ implicitInputMap'[p].relPath = p]_vars

\* the path was resolved again after a file appeared in the user input root: the record
\* is still bound to the base copy it was first bound to
C31_Witness ==
    /\ lastOp.op \in { "read", "resolve" }
    /\ lastOp.relPath = DataPath
    /\ DataPath \in DOMAIN implicitInputMap
    /\ implicitInputMap[DataPath].realPath = getNativePath(BaseInputPath, DataPath)
    /\ ExistsSync(fs, getNativePath(UserInputPath, DataPath))

\* C32: the output map lists every path once, and an output record that exists keeps its
\* evicted flag and its realPath at every step, flushes included; the input map holds one
\* record per path under the path's own key
C32_OneRecordFixedFlags ==
    [][/\ \A i, j \in 1..Len(outputOrder') : outputOrder'[i] = outputOrder'[j] => i = j
       /\ { outputOrder'[i] : i \in 1..Len(outputOrder') } = DOMAIN implicitOutputMap'
       /\ \A p \in DOMAIN implicitOutputMap' : implicitOutputMap'[p].relPath = p
       /\ \A p \in DOMAIN implicitInputMap' : implicitInputMap'[p].relPath = p
       /\ \A p \in DOMAIN implicitOutputMap :
             /\ p \in DOMAIN implicitOutputMap'
             /\ implicitOutputMap'[p].evicted = implicitOutputMap[p].evicted
             /\ implicitOutputMap'[p].realPath = implicitOutputMap[p].realPath]_vars

\* a flush has created the file of a record that did not exist at its first resolution,
\* and the path was resolved again: the record still says the file did not exist
C32_Witness ==
    /\ lastOp.op \in { "read", "resolve", "write" }
    /\ lastOp.relPath = DataPath
    /\ flushes > 0
    /\ DataPath \in DOMAIN implicitOutputMap
    /\ ~implicitOutputMap[DataPath].evicted
    /\ ExistsSync(fs, implicitOutputMap[DataPath].realPath)

-----------------------------------------------------------------------------
\* The function-scope wrap of maybePreprocess (SpecMod)

\* C33: after maybePreprocess a segment is wrapped, with its line offset shifted by one,
\* exactly when the compatibility mode is on and the preprocessor gave one segment that
\* is inline; when a segment is a library reference no segment is wrapped and the line
\* offset of a library segment is the 0 it was made with
C33_WrapOnlyLoneInline ==
    pp.pc \in { "run", "returned" } =>
        /\ (\E i \in 1..Len(pp.scriptSources) : pp.scriptSources[i].wrapped)
              <=> (tryWrapInFunctionScope /\ Len(pp.scriptSources) = 1 /\ pp.scriptSources[1].extern = Null)
        /\ ExternSegments # { } =>
              /\ \A i \in 1..Len(pp.scriptSources) : ~pp.scriptSources[i].wrapped
              /\ \A i \in ExternSegments : pp.scriptSources[i].lineOffset = 0

-----------------------------------------------------------------------------
\* The inline segments of a preprocessed script (SpecMod)

\* line i (counted from 1) lies in a lib block: between a lib-begin and the first lib-end
\* after it, the two lines included
InClosedBlock(i) ==
    \E b \in 1..i : \E e \in i..Len(pp.lines) :
        /\ IsLibBegin(pp.lines[b]) /\ IsLibEnd(pp.lines[e])
        /\ \A j \in b..(e - 1) : ~IsLibEnd(pp.lines[j])

\* the script lines (counted from 1) that the code of segment k holds: line j of the
\* code, unless it is the prepended prologue, is line j + lineOffset of the script
Covered(k) ==
    { j + pp.scriptSources[k].lineOffset - kLineOffset + 1 :
        j \in { j \in 0..(Len(Split(pp.scriptSources[k].code)) - 1) : ~Synthesized(pp.scriptSources[k], j) } }

\* C34: when preprocessScript returns, each line outside the lib blocks is held by
\* exactly one inline segment, as the line it is in the script; the inline segments are
\* in the order of the script, none is empty and no two are neighbours
C34_MaximalInlineSegments ==
    pp.pc = "preprocessed" =>
        /\ \A i \in 1..Len(pp.lines) :
              Cardinality({ k \in InlineSegments : i \in Covered(k) }) = IF InClosedBlock(i) THEN 0 ELSE 1
        /\ \A k \in InlineSegments :
              /\ Covered(k) # { }
              /\ Covered(k) \subseteq 1..Len(pp.lines)
              /\ \A j \in 0..(Len(Split(pp.scriptSources[k].code)) - 1) :
                    ~Synthesized(pp.scriptSources[k], j) =>
                        Split(pp.scriptSources[k].code)[j + 1]
                            = pp.lines[j + pp.scriptSources[k].lineOffset - kLineOffset + 1]
              /\ \A k2 \in InlineSegments :
                    k < k2 => /\ k2 # k + 1
                              /\ \A i \in Covered(k), i2 \in Covered(k2) : i < i2

\* the script A, lib-begin L, lib-end, B, A gave the inline segments A and B, A
C34_Witness ==
    /\ pp.pc = "preprocessed"
    /\ pp.lines = << LineA, LibBegin(LibL), LibEnd, LineB, LineA >>
    /\ InlineSegments = { 1, 3 }
    /\ Covered(1) = { 1 }
    /\ Covered(3) = { 4, 5 }

-----------------------------------------------------------------------------
\* The order of the selected mods (SpecSelect)

\* a list without the later occurrences of its elements
RECURSIVE FirstOccurrences(_)
FirstOccurrences(list) ==
    IF list = << >> THEN << >>
    ELSE LET init == FirstOccurrences(SubSeq(list, 1, Len(list) - 1))
         IN  IF \E k \in 1..Len(init) : init[k] = list[Len(list)] THEN init
             ELSE Append(init, list[Len(list)])

\* the order list of a run: override_ordered_mods when given, or else mods-order, with
\* the names of include_mods appended
OrderList(arg) == (IF arg[3] = Null THEN arg[2] ELSE arg[3]) \o OrEmpty(arg[4])

\* C35: the mods are run in the order of the order list restricted to the selected mods,
\* each name once, at the place of its first occurrence
C35_ExecutionOrder ==
    lastOp.op = "selected" =>
        Keys(lastOp.content)
            = FirstOccurrences(SelectSeq(OrderList(lastOp.arg),
                                         LAMBDA name : name \in Names(Keys(lastOp.content))))

-----------------------------------------------------------------------------
\* The slots of the shared scope while a mod runs (SpecTask)

\* the config of a mod directory after maybeFixupModConfig
EffectiveConfig(m) ==
    getModConfig(JSONParse(m.mod).config, JSONParse(IF m.config = NoFile THEN ObjectText ELSE m.config).entries)

\* the mod of the last runModScript call
LastAttempt == task.attempts[Len(task.attempts)]

\* C36: every segment of a mod was run with the facade slot bound to that mod and the
\* config slot holding that mod's effective config
C36_SlotsBoundToRunningMod ==
    (pp.pc = "returned" /\ task.attempts # << >>) =>
        /\ Len(pp.scope) = Len(pp.ran)
        /\ \A k \in 1..Len(pp.scope) :
              /\ pp.scope[k].D2RMM = LastAttempt
              /\ pp.scope[k].config = EffectiveConfig(task.mods[LastAttempt])

\* the second of two mods with different effective configs ran a segment
C36_Witness ==
    /\ pp.pc = "returned"
    /\ Len(task.attempts) = 2
    /\ EffectiveConfig(task.mods[1]) # EffectiveConfig(task.mods[2])
    /\ pp.scope # << >>
    /\ pp.scope[1].D2RMM = 2
    /\ pp.scope[1].config = EffectiveConfig(task.mods[2])

-----------------------------------------------------------------------------
\* The writes of config.json (SpecTask)

\* the config that config.json of a mod directory holds, {} when there is no file
PersistedConfig(m) == JSONParse(IF m.config = NoFile THEN ObjectText ELSE m.config).entries

\* the mods whose config.json the run has written
ConfigWritten == { task.configWrites[k].mod : k \in 1..Len(task.configWrites) }

\* C37: a config.json is written only in a run with config completion and only for a mod
\* whose completed config differs from the persisted one; none is written for a mod whose
\* persisted config has every field of the manifest
C37_ConfigWrittenOnlyWhenChanged ==
    \A i \in 1..Len(task.mods) :
        /\ i \in ConfigWritten =>
              /\ "d2rmm_config_completion" \in task.options
              /\ EffectiveConfig(task.mods[i]) # PersistedConfig(task.mods[i])
        /\ (i \in ConfigWritten /\ ~JSONParse(task.mods[i].mod).threw) =>
              \E k \in 1..Len(JSONParse(task.mods[i].mod).config) :
                  Get(PersistedConfig(task.mods[i]), JSONParse(task.mods[i].mod).config[k].id) = "undefined"

-----------------------------------------------------------------------------
(* d2rmm_api.js: JSON files that scripts write and read back (SpecJson) *)

\* JSON.stringify(json) of an object of strings, without indentation
RECURSIVE JSONStringifyRest(_)
JSONStringifyRest(entries) ==
    IF entries = << >> THEN << "}" >>
    ELSE << ",", entries[1][1], ":", entries[1][2] >> \o JSONStringifyRest(Tail(entries))

JSONStringify(entries) ==
    IF entries = << >> THEN ObjectText
    ELSE << "{", entries[1][1], ":", entries[1][2] >> \o JSONStringifyRest(Tail(entries))

\* SimD2RMM.writeJson(jsonPath, json) without indent and width
writeJson(w, relPath, json) ==
    LET Typed(w1) == [ w1 EXCEPT !.out[relPath].type = << "json" >> ]
    IN  Typed(updateOutputFile(w, relPath, JSONStringify(json)))

\* a script writes an object to a path
WriteJson(mixedPath, json) ==
    \E relPath \in { normalizePath(mixedPath) } : \E w \in { writeJson(World, relPath, json) } :
        /\ pc = "run"
        /\ Becomes(w)
        /\ scriptWrites' = scriptWrites \cup { relPath }
        /\ lastOp' = [ NoOp EXCEPT !.op = "writeJson", !.relPath = relPath, !.arg = JSONStringify(json) ]
        /\ sinceFlush' = IF sinceFlush = "none" THEN "none" ELSE "touched"
        /\ UNCHANGED << ids, firstID, flushes, pc, pp, task >>

\* the data file may be a strict or a commented JSON file in the output or the base root
InitJson ==
    /\ FreshResolver
    /\ \E outData \in { NoFile, ObjectText, CommentedText }, baseData \in { NoFile, ObjectText, CommentedText } :
          fs = Files(outData, NoFile, baseData, NoFile, NoFile)
    /\ dryrun = FALSE
    /\ paths = { DataPath }
    /\ pc = "run"
    /\ pp = IdlePP
    /\ task = IdleTask

NextJson ==
    \/ \E mixedPath \in Used(MixedPaths) : \E content \in { ObjectText, CommentedText } : Write(mixedPath, content)
    \/ \E mixedPath \in Used(MixedPaths) : \E json \in { << >>, ConfigX1 } : WriteJson(mixedPath, json)
    \/ \E mixedPath \in Used(MixedPaths) : ReadJson(mixedPath)
    \/ Flush

SpecJson == InitJson /\ [][NextJson]_vars

\* C38: a readJson that returns a value reports its content as JSONC, and has parsed it
\* with the relaxed parser, only if the strict parser refuses the content it read
C38_RelaxedOnlyWhenStrictFails ==
    (lastOp.op = "readJson" /\ lastOp.info = "value" /\ lastOp.warned) => JSONParse(lastOp.content).threw

-----------------------------------------------------------------------------
\* The dirty flags after a flush that failed (Spec)

\* C39: outside dry-run, after a flush that threw, every record that was dirty before it
\* and whose content was not written is still dirty
C39_FailedFlushKeepsDirty ==
    (lastOp.op = "flush" /\ lastOp.threw /\ ~dryrun) =>
        \A relPath \in lastOp.dirtyBefore \ WrittenPaths(lastOp) : implicitOutputMap[relPath].dirty

-----------------------------------------------------------------------------
\* copyFile and the records of the destination (SpecOverlay)

\* the last operation copied the mod's file over the data file of the output root
CopiedOverData ==
    /\ lastOp.op = "copyFile"
    /\ ~lastOp.threw
    /\ normalizePath(lastOp.arg[1]) = DataPath
    /\ lastOp.arg[2] = TRUE

\* C40: after copyFile(src, dst, true) has succeeded, the next readTxt(dst) returns the
\* content of the copied file, and the next flush leaves the copied content at dst
C40_CopyIsSeenAndKept ==
    [][CopiedOverData =>
          /\ (lastOp'.op = "readTxt" /\ lastOp'.relPath = DataPath) =>
                (lastOp'.info = "value" /\ lastOp'.content = AssetText)
          /\ lastOp'.op = "flush" => fs'[getNativePath(OutputPath, DataPath)] = AssetText]_vars

====
